---------------------------- MODULE Spec2Model ----------------------------
(***************************************************************************)
(* A model of python3270: the 3270 screen buffer and its inbound order     *)
(* parser (screen.py), the buffer-address and EBCDIC codecs (orders.py,    *)
(* ebcdic.py), the outbound AID builder and the keyboard (main_window.py,  *)
(* terminal_widget.py) and the Telnet/TN3270E connection (connection.py).  *)
(*                                                                         *)
(* Bytes are integers 0..255 and characters are their code points.  Byte   *)
(* strings are sequences; At(data, i) reads Python's data[i] (0-based).    *)
(*                                                                         *)
(* Three specifications share the definitions:                             *)
(*   Spec      the screen: one action per handler (an inbound record, a    *)
(*             key press, an AID send, a Telnet command), each atomic;     *)
(*   SpecConn  the receive task's framer: one action per received chunk;   *)
(*   SpecSend  the application thread and the receive task building and    *)
(*             sending TN3270E records, one action per statement.          *)
(***************************************************************************)
EXTENDS Integers, Sequences, FiniteSets, TLC

(***************************************************************************)
(* Bounds of the model.  The program's screen is 24 x 80; the model keeps  *)
(* SIZE == ROWS * COLS and every "% SIZE" of the source and checks a       *)
(* smaller geometry, so that buffer addresses both inside and outside the  *)
(* screen are decoded from the bytes the records carry.                    *)
(***************************************************************************)
ROWS == 2
COLS == 3
MaxOrders == 2
MaxRecords == 2
MaxKeys == 1
MaxAids == 1
MaxTelnet == 1
MaxChunks == 3

SIZE == ROWS * COLS

(***************************************************************************)
(* orders.py: order bytes, write commands, Telnet bytes.                   *)
(***************************************************************************)
SF == 29
SFE == 41
SBA == 17
SA == 40
MF == 44
IC == 19
PT == 5
RA == 60
EUA == 18
GE == 8

WRITE == 241
ERASE_WRITE == 245
ERASE_WRITE_ALTERNATE == 126
WRITE_STRUCTURED_FIELD == 243
ERASE_ALL_UNPROTECTED == 111
CCW_WRITE == 1
CCW_ERASE_WRITE == 5
CCW_ERASE_WRITE_ALTERNATE == 13
CCW_ERASE_ALL_UNPROTECTED == 15

ALL_WRITE_COMMANDS == {241, 245, 126, 243, 111, 1, 5, 13, 15}
ERASE_COMMANDS == {245, 126, 5, 13}
VALID_ORDERS == {29, 41, 17, 40, 44, 19, 60, 18, 8}

IAC == 255
DONT == 254
DO == 253
WONT == 252
WILL == 251
SB == 250
SE == 240
EOR == 239

OPT_BINARY == 0
OPT_TERMINAL_TYPE == 24
OPT_EOR == 25
OPT_TN3270E == 40
SUPPORTED_OPTIONS == {OPT_BINARY, OPT_EOR, OPT_TN3270E, OPT_TERMINAL_TYPE}

ATTR_T3270 == 192
ATTR_HIGHLIGHTING == 65
ATTR_FOREGROUND_COLOR == 66
ATTR_BACKGROUND_COLOR == 69

SeqModulus == 65536

AIDS ==
   [ENTER |-> 125,
    PF1 |-> 241, PF2 |-> 242, PF3 |-> 243, PF4 |-> 244,
    PF5 |-> 245, PF6 |-> 246, PF7 |-> 247, PF8 |-> 248,
    PF9 |-> 249, PF10 |-> 122, PF11 |-> 123, PF12 |-> 124,
    PF13 |-> 193, PF14 |-> 194, PF15 |-> 195, PF16 |-> 196,
    PF17 |-> 197, PF18 |-> 198, PF19 |-> 199, PF20 |-> 200,
    PF21 |-> 201, PF22 |-> 74, PF23 |-> 75, PF24 |-> 76,
    PA1 |-> 108, PA2 |-> 110, PA3 |-> 107,
    CLEAR |-> 109,
    SYSREQ |-> 240,
    ATTN |-> 0]
short_read_aids == {"PA1", "PA2", "PA3", "CLEAR"}

At(data, i) == data[i + 1]
Slice(data, from, to) == [k \in 1..(to - from) |-> data[from + k]]

(***************************************************************************)
(* ebcdic.py: the CP037 table (as code points) and the reverse map: first  *)
(* occurrence wins, then the explicit overrides of A2E.update.             *)
(***************************************************************************)
E2A ==
   <<
        0,   1,   2,   3,   4,   5,   6,   7,   8,   9,  10,  11,  12,  13,  14,  15,
       16,  17,  18,  19,  20,  21,  22,  23,  24,  25,  26,  27,  28,  29,  30,  31,
       32,  33,  34,  35,  36,  37,  38,  39,  40,  41,  42,  43,  44,  45,  46,  47,
       48,  49,  50,  51,  52,  53,  54,  55,  56,  57,  58,  59,  60,  61,  62,  63,
       32,  65,  66,  67,  68,  69,  70,  71,  72,  73, 162,  46,  60,  40,  43, 124,
       38,  81,  82,  83,  84,  85,  86,  87,  88,  89,  33,  36,  42,  41,  59, 172,
       45,  47,  98,  99, 100, 101, 102, 103, 104, 105, 124,  44,  37,  95,  62,  63,
      112, 113, 114, 115, 116, 117, 118, 119, 120,  96,  58,  35,  64,  39,  61,  34,
      128,  97,  98,  99, 100, 101, 102, 103, 104, 105, 138, 139, 140, 141, 142, 143,
      144, 106, 107, 108, 109, 110, 111, 112, 113, 114, 154, 155, 156, 157, 158, 159,
      160, 126, 115, 116, 117, 118, 119, 120, 121, 122, 170, 171, 172, 173, 174, 175,
      176, 177, 178, 179, 180, 181, 182, 183, 184, 185, 186, 187, 188, 189, 190, 191,
      123,  65,  66,  67,  68,  69,  70,  71,  72,  73, 202, 203, 204, 205, 206, 207,
      125,  74,  75,  76,  77,  78,  79,  80,  81,  82, 218, 219, 220, 221, 222, 223,
       92, 225,  83,  84,  85,  86,  87,  88,  89,  90, 234, 235, 236, 237, 238, 239,
       48,  49,  50,  51,  52,  53,  54,  55,  56,  57, 250, 251, 252, 253, 254, 255
   >>

A2E_UPDATE_KEYS ==
   << 32, 46, 60, 40, 43, 124, 38, 33, 36, 42, 41, 59, 45, 47, 44, 37, 95, 62,
      63, 96, 58, 35, 64, 39, 61, 34, 97, 98, 99, 100, 101, 102, 103, 104, 105,
      106, 107, 108, 109, 110, 111, 112, 113, 114, 126, 115, 116, 117, 118, 119,
      120, 121, 122, 123, 65, 66, 67, 68, 69, 70, 71, 72, 73, 125, 74, 75, 76,
      77, 78, 79, 80, 81, 82, 92, 83, 84, 85, 86, 87, 88, 89, 90, 48, 49, 50,
      51, 52, 53, 54, 55, 56, 57 >>
A2E_UPDATE_VALUES ==
   << 64, 75, 76, 77, 78, 79, 80, 90, 91, 92, 93, 94, 96, 97, 107, 108, 109,
      110, 111, 121, 122, 123, 124, 125, 126, 127, 129, 130, 131, 132, 133,
      134, 135, 136, 137, 145, 146, 147, 148, 149, 150, 151, 152, 153, 161,
      162, 163, 164, 165, 166, 167, 168, 169, 192, 193, 194, 195, 196, 197,
      198, 199, 200, 201, 208, 209, 210, 211, 212, 213, 214, 215, 216, 217,
      224, 226, 227, 228, 229, 230, 231, 232, 233, 240, 241, 242, 243, 244,
      245, 246, 247, 248, 249 >>

\* The A2E dictionary: its keys, and the byte of each key.
A2E_KEYS ==
   {E2A[i] : i \in 1..256} \cup {A2E_UPDATE_KEYS[i] : i \in 1..Len(A2E_UPDATE_KEYS)}
A2E ==
   [c \in A2E_KEYS |->
      IF \E i \in 1..Len(A2E_UPDATE_KEYS) : A2E_UPDATE_KEYS[i] = c
      THEN A2E_UPDATE_VALUES[CHOOSE i \in 1..Len(A2E_UPDATE_KEYS) : A2E_UPDATE_KEYS[i] = c]
      ELSE (CHOOSE i \in 1..256 : E2A[i] = c /\ \A j \in 1..(i - 1) : E2A[j] # c) - 1]

\* A variant of ebcdic_to_ascii whose printable range ends one character
\* early: C27 depends on the range reaching 0x7E.
ebcdic_to_ascii_short_range(ebcdic_byte) ==
   IF 0 <= ebcdic_byte /\ ebcdic_byte <= 255
   THEN LET char == E2A[ebcdic_byte + 1]
        IN  IF char < 32 \/ char >= 126 THEN 32 ELSE char
   ELSE 32

ebcdic_to_ascii(ebcdic_byte) ==
   IF 0 <= ebcdic_byte /\ ebcdic_byte <= 255
   THEN LET char == E2A[ebcdic_byte + 1]
        IN  IF char < 32 \/ char > 126 THEN 32 ELSE char
   ELSE 32

ascii_to_ebcdic(text) ==
   [i \in 1..Len(text) |-> IF text[i] \in A2E_KEYS THEN A2E[text[i]] ELSE 64]

(***************************************************************************)
(* orders.py: the buffer-address codec.                                    *)
(***************************************************************************)
ADDR_TABLE ==
   << 64, 193, 194, 195, 196, 197, 198, 199, 200, 201, 74, 75, 76, 77, 78, 79,
      80, 209, 210, 211, 212, 213, 214, 215, 216, 217, 90, 91, 92, 93, 94, 95,
      96, 97, 226, 227, 228, 229, 230, 231, 232, 233, 106, 107, 108, 109, 110,
      111, 240, 241, 242, 243, 244, 245, 246, 247, 248, 249, 122, 123, 124,
      125, 126, 127 >>

\* ADDR_DECODE.get(b, 0)
ADDR_DECODE(b) ==
   IF \E i \in 1..64 : ADDR_TABLE[i] = b
   THEN (CHOOSE i \in 1..64 : ADDR_TABLE[i] = b) - 1
   ELSE 0

\* A variant of decode_buffer_address that takes the 14-bit form whenever
\* bit 7 of the first byte is clear: C26 depends on the test of both bits.
decode_buffer_address_one_bit(b1, b2) ==
   IF b1 < 128
   THEN ((b1 % 64) * 256) + b2
   ELSE (ADDR_DECODE(b1) * 64) + ADDR_DECODE(b2)

decode_buffer_address(b1, b2) ==
   IF b1 < 64                                   \* b1 & 0xC0 == 0x00
   THEN ((b1 % 64) * 256) + b2                  \* ((b1 & 0x3F) << 8) | b2
   ELSE (ADDR_DECODE(b1) * 64) + ADDR_DECODE(b2)

encode_buffer_address(addr) ==
   << ADDR_TABLE[((addr \div 64) % 64) + 1], ADDR_TABLE[(addr % 64) + 1] >>


(***************************************************************************)
(* orders.py: default field colour, colour and highlight tables.           *)
(***************************************************************************)
get_default_field_color(attr) ==
   LET is_protected == (attr \div 32) % 2 = 1            \* attr & 0x20
       display == ((attr \div 4) % 4) * 4                \* attr & 0x0C
       is_intensified == display = 8
       is_hidden == display = 12
   IN  IF is_hidden THEN "green"
       ELSE IF is_protected
            THEN (IF is_intensified THEN "white" ELSE "blue")
            ELSE (IF is_intensified THEN "red" ELSE "green")

\* COLORS.get(v, dflt)
COLORS(v, dflt) ==
   CASE v = 240 -> "default" [] v = 241 -> "blue" [] v = 242 -> "red"
     [] v = 243 -> "pink" [] v = 244 -> "green" [] v = 245 -> "turquoise"
     [] v = 246 -> "yellow" [] v = 247 -> "white" [] OTHER -> dflt

\* HIGHLIGHTS.get(v, 'normal')
HIGHLIGHTS(v) ==
   CASE v = 240 -> "normal" [] v = 241 -> "blink" [] v = 242 -> "reverse"
     [] v = 244 -> "underscore" [] OTHER -> "normal"

(***************************************************************************)
(* screen.py: Cell, Field and ScreenBuffer.  A screen value is the record  *)
(* of the ScreenBuffer's fields.                                           *)
(***************************************************************************)
Cell ==
   [char |-> 32, is_field_start |-> FALSE, is_protected |-> FALSE,
    is_numeric |-> FALSE, is_hidden |-> FALSE, is_intensified |-> FALSE,
    is_modified |-> FALSE, color |-> "green", highlight |-> "normal",
    background |-> "default"]

Field(start_pos, attr, color, highlight) ==
   [start_pos |-> start_pos, attr_byte |-> attr,
    is_protected |-> (attr \div 32) % 2 = 1,             \* bool(attr & 0x20)
    is_numeric |-> (attr \div 16) % 2 = 1,               \* bool(attr & 0x10)
    is_hidden |-> (attr \div 4) % 4 = 3,                 \* (attr & 0x0C) == 0x0C
    is_intensified |-> (attr \div 4) % 4 = 2,            \* (attr & 0x0C) == 0x08
    is_modified |-> attr % 2 = 1,                        \* bool(attr & 0x01)
    color |-> color, highlight |-> highlight]

ScreenBuffer ==
   [cells |-> [p \in 0..(SIZE - 1) |-> Cell], fields |-> <<>>, cursor_pos |-> 0,
    tn3270e |-> FALSE, current_color |-> "green", current_highlight |-> "normal",
    current_background |-> "default"]

clear(s) ==
   [s EXCEPT !.cells = [p \in 0..(SIZE - 1) |-> Cell], !.fields = <<>>,
             !.cursor_pos = 0, !.current_color = "green",
             !.current_highlight = "normal", !.current_background = "default"]

\* The while loop of _apply_field_attributes, from current_pos on.
RECURSIVE apply_loop(_, _, _, _)
apply_loop(cells, pos, field, current_pos) ==
   IF current_pos = pos \/ cells[current_pos].is_field_start
   THEN cells
   ELSE apply_loop(
           [cells EXCEPT ![current_pos] =
              [@ EXCEPT !.is_protected = field.is_protected,
                        !.is_numeric = field.is_numeric,
                        !.is_hidden = field.is_hidden,
                        !.is_intensified = field.is_intensified,
                        !.color = field.color,
                        !.highlight = field.highlight]],
           pos, field, (current_pos + 1) % SIZE)

\* A variant that does not stop at the next field-start cell.
apply_field_attributes_all(cells, pos, field) ==
   [p \in 0..(SIZE - 1) |->
      IF p = pos THEN cells[p]
      ELSE [cells[p] EXCEPT !.is_protected = field.is_protected,
                            !.is_numeric = field.is_numeric,
                            !.is_hidden = field.is_hidden,
                            !.is_intensified = field.is_intensified,
                            !.color = field.color,
                            !.highlight = field.highlight]]

\* _apply_field_attributes: from the cell after pos to the next field start.
apply_field_attributes(cells, pos, field) ==
   apply_loop(cells, pos, field, (pos + 1) % SIZE)

\* A variant that marks the cell and applies the attributes but adds no
\* entry to the field list.
start_field_no_entry(s, pos, attr) ==
   LET color == get_default_field_color(attr)
       field == Field(pos, attr, color, "normal")
       marked == [s.cells EXCEPT ![pos] = [@ EXCEPT !.is_field_start = TRUE, !.char = 32]]
   IN  [s EXCEPT !.cells = apply_field_attributes(marked, pos, field),
                 !.current_color = color]

\* _start_field, for pos < SIZE (cells[pos] raises IndexError otherwise).
start_field(s, pos, attr) ==
   LET color == get_default_field_color(attr)
       field == Field(pos, attr, color, "normal")
       marked == [s.cells EXCEPT ![pos] = [@ EXCEPT !.is_field_start = TRUE, !.char = 32]]
   IN  [s EXCEPT !.cells = apply_field_attributes(marked, pos, field),
                 !.fields = Append(s.fields, field),
                 !.current_color = color]

\* _start_field_extended, for pos < SIZE.
start_field_extended(s, pos, attr, color, highlight) ==
   LET field == Field(pos, attr, color, highlight)
       marked == [s.cells EXCEPT ![pos] = [@ EXCEPT !.is_field_start = TRUE, !.char = 32]]
   IN  [s EXCEPT !.cells = apply_field_attributes(marked, pos, field),
                 !.fields = Append(s.fields, field),
                 !.current_color = color,
                 !.current_highlight = highlight]

erase_unprotected(s) ==
   [s EXCEPT !.cells =
      [p \in 0..(SIZE - 1) |->
         IF ~s.cells[p].is_protected /\ ~s.cells[p].is_field_start
         THEN [s.cells[p] EXCEPT !.char = 32, !.is_modified = FALSE]
         ELSE s.cells[p]]]

(***************************************************************************)
(* _get_next_unprotected: the scan from current; n counts the cells        *)
(* scanned.  With pos >= SIZE the loop condition current != start never    *)
(* fails, so a scan of SIZE cells that finds nothing repeats for ever.     *)
(***************************************************************************)
RECURSIVE next_unprotected_loop(_, _, _, _)
next_unprotected_loop(cells, start, current, n) ==
   IF current = start THEN [pos |-> start, hang |-> FALSE]
   ELSE IF cells[current].is_field_start /\ ~cells[current].is_protected
        THEN [pos |-> (current + 1) % SIZE, hang |-> FALSE]
        ELSE IF n + 1 >= SIZE /\ start >= SIZE
             THEN [pos |-> start, hang |-> TRUE]
             ELSE next_unprotected_loop(cells, start, (current + 1) % SIZE, n + 1)

get_next_unprotected(cells, pos) ==
   next_unprotected_loop(cells, pos, (pos + 1) % SIZE, 0)

get_next_input_field(cells, pos) == get_next_unprotected(cells, pos).pos

RECURSIVE prev_input_loop(_, _, _)
prev_input_loop(cells, start, current) ==
   IF current = start THEN start
   ELSE IF cells[current].is_field_start /\ ~cells[current].is_protected
        THEN (current + 1) % SIZE
        ELSE prev_input_loop(cells, start, (current - 1 + SIZE) % SIZE)

get_prev_input_field(cells, pos) ==
   prev_input_loop(cells, pos, (pos - 1 + SIZE) % SIZE)

get_first_input_field(cells) ==
   IF \E i \in 0..(SIZE - 1) : cells[i].is_field_start /\ ~cells[i].is_protected
   THEN LET i == CHOOSE k \in 0..(SIZE - 1) :
                    /\ cells[k].is_field_start /\ ~cells[k].is_protected
                    /\ \A j \in 0..(k - 1) :
                          ~(cells[j].is_field_start /\ ~cells[j].is_protected)
        IN  (i + 1) % SIZE
   ELSE 0


(***************************************************************************)
(* _process_orders.  A call ends in one of three ways: it returns ("ok"),  *)
(* it raises IndexError at a cells[pos] with pos >= SIZE ("raise"), or a   *)
(* loop of it never ends ("hang").  The screen of the result is the        *)
(* screen as the call left it.                                             *)
(***************************************************************************)
Result(s, status) == [s |-> s, status |-> status]

\* cells[pos].char = char; .color = current_color; .highlight = current_highlight
put_char(s, pos, char) ==
   [s EXCEPT !.cells[pos] = [@ EXCEPT !.char = char, !.color = s.current_color,
                                      !.highlight = s.current_highlight]]

\* The while loop of RA; n counts its iterations.  pos < SIZE stays below
\* SIZE, so an end_addr >= SIZE is never met: after a lap the loop goes on
\* for ever, rewriting the same cells.
RECURSIVE ra_loop(_, _, _, _, _)
ra_loop(s, pos, end_addr, char, n) ==
   IF pos = end_addr THEN [s |-> s, pos |-> pos, status |-> "ok"]
   ELSE IF pos >= SIZE THEN [s |-> s, pos |-> pos, status |-> "raise"]
   ELSE IF n >= SIZE THEN [s |-> s, pos |-> pos, status |-> "hang"]
   ELSE ra_loop(put_char(s, pos, char), (pos + 1) % SIZE, end_addr, char, n + 1)

\* The while loop of EUA.
RECURSIVE eua_loop(_, _, _, _)
eua_loop(s, pos, end_addr, n) ==
   IF pos = end_addr THEN [s |-> s, pos |-> pos, status |-> "ok"]
   ELSE IF pos >= SIZE THEN [s |-> s, pos |-> pos, status |-> "raise"]
   ELSE IF n >= SIZE THEN [s |-> s, pos |-> pos, status |-> "hang"]
   ELSE eua_loop(
           IF ~s.cells[pos].is_protected /\ ~s.cells[pos].is_field_start
           THEN [s EXCEPT !.cells[pos] = [@ EXCEPT !.char = 32]]
           ELSE s,
           (pos + 1) % SIZE, end_addr, n + 1)

\* The pair loop of SFE: for _ in range(pair_count).
RECURSIVE sfe_pairs(_, _, _, _, _, _)
sfe_pairs(data, offset, count, attr, color, highlight) ==
   IF count = 0 \/ ~(offset + 1 < Len(data))
   THEN [offset |-> offset, attr |-> attr, color |-> color, highlight |-> highlight]
   ELSE LET attr_type == At(data, offset)
            attr_value == At(data, offset + 1)
        IN  sfe_pairs(data, offset + 2, count - 1,
               IF attr_type = ATTR_T3270 THEN attr_value ELSE attr,
               IF attr_type # ATTR_T3270 /\ attr_type # ATTR_HIGHLIGHTING
                  /\ attr_type = ATTR_FOREGROUND_COLOR
               THEN COLORS(attr_value, "green") ELSE color,
               IF attr_type # ATTR_T3270 /\ attr_type = ATTR_HIGHLIGHTING
               THEN HIGHLIGHTS(attr_value) ELSE highlight)

RECURSIVE process_orders(_, _, _, _)
process_orders(s, data, offset, pos) ==
   IF ~(offset < Len(data)) THEN Result(s, "ok")
   ELSE
   LET byte == At(data, offset) IN
   CASE byte = SBA ->
          IF offset + 2 < Len(data)
          THEN process_orders(s, data, offset + 3,
                  decode_buffer_address(At(data, offset + 1), At(data, offset + 2)))
          ELSE Result(s, "ok")
     [] byte = SF ->
          IF offset + 1 < Len(data)
          THEN IF pos >= SIZE THEN Result(s, "raise")
               ELSE process_orders(start_field(s, pos, At(data, offset + 1)),
                       data, offset + 2, (pos + 1) % SIZE)
          ELSE Result(s, "ok")
     [] byte = SFE ->
          IF offset + 1 < Len(data)
          THEN LET pr == sfe_pairs(data, offset + 2, At(data, offset + 1),
                            0, "none", s.current_highlight)
                   color == IF pr.color = "none"
                            THEN get_default_field_color(pr.attr) ELSE pr.color
               IN  IF pos >= SIZE THEN Result(s, "raise")
                   ELSE process_orders(
                           start_field_extended(s, pos, pr.attr, color, pr.highlight),
                           data, pr.offset, (pos + 1) % SIZE)
          ELSE Result(s, "ok")
     [] byte = SA ->
          IF offset + 2 < Len(data)
          THEN LET attr_type == At(data, offset + 1)
                   attr_value == At(data, offset + 2)
                   s2 == IF attr_type = ATTR_FOREGROUND_COLOR
                         THEN [s EXCEPT !.current_color = COLORS(attr_value, "green")]
                         ELSE IF attr_type = ATTR_HIGHLIGHTING
                         THEN [s EXCEPT !.current_highlight = HIGHLIGHTS(attr_value)]
                         ELSE IF attr_type = ATTR_BACKGROUND_COLOR
                         THEN [s EXCEPT !.current_background = COLORS(attr_value, "default")]
                         ELSE s
               IN  process_orders(s2, data, offset + 3, pos)
          ELSE Result(s, "ok")
     [] byte = IC ->
          process_orders([s EXCEPT !.cursor_pos = pos], data, offset + 1, pos)
     [] byte = PT ->
          LET nx == get_next_unprotected(s.cells, pos)
          IN  IF nx.hang THEN Result(s, "hang")
              ELSE process_orders(s, data, offset + 1, nx.pos)
     [] byte = RA ->
          IF offset + 3 < Len(data)
          THEN LET end_addr == decode_buffer_address(At(data, offset + 1),
                                                     At(data, offset + 2))
                   char == ebcdic_to_ascii(At(data, offset + 3))
                   r == ra_loop(s, pos, end_addr, char, 0)
               IN  IF r.status # "ok" THEN Result(r.s, r.status)
                   ELSE process_orders(r.s, data, offset + 4, r.pos)
          ELSE Result(s, "ok")
     [] byte = EUA ->
          IF offset + 2 < Len(data)
          THEN LET end_addr == decode_buffer_address(At(data, offset + 1),
                                                     At(data, offset + 2))
                   r == eua_loop(s, pos, end_addr, 0)
               IN  IF r.status # "ok" THEN Result(r.s, r.status)
                   ELSE process_orders(r.s, data, offset + 3, r.pos)
          ELSE Result(s, "ok")
     [] byte = MF ->
          IF offset + 1 < Len(data)
          THEN process_orders(s, data, offset + 2 + (At(data, offset + 1) * 2), pos)
          ELSE Result(s, "ok")
     [] byte = GE ->
          IF offset + 1 < Len(data)
          THEN IF pos >= SIZE THEN Result(s, "raise")
               ELSE process_orders(
                       put_char(s, pos, ebcdic_to_ascii(At(data, offset + 1))),
                       data, offset + 2, (pos + 1) % SIZE)
          ELSE Result(s, "ok")
     [] OTHER ->
          IF pos >= SIZE THEN Result(s, "raise")
          ELSE process_orders(put_char(s, pos, ebcdic_to_ascii(byte)),
                  data, offset + 1, (pos + 1) % SIZE)

\* process_data(data, tn3270e_mode): the tn3270e_mode argument is never read.
process_data(s, data0) ==
   IF Len(data0) < 3 THEN Result(s, "ok")
   ELSE
   LET data == IF At(data0, Len(data0) - 2) = IAC /\ At(data0, Len(data0) - 1) = EOR
               THEN SubSeq(data0, 1, Len(data0) - 2) ELSE data0
       none == 0 - 1
       write_cmd_offset ==
          IF Len(data) > 5 /\ At(data, 5) \in ALL_WRITE_COMMANDS THEN 5
          ELSE IF Len(data) > 0 /\ At(data, 0) \in ALL_WRITE_COMMANDS THEN 0
          ELSE none
       orders_only_offset ==
          IF write_cmd_offset # none THEN none
          ELSE IF Len(data) > 5 /\ At(data, 5) \in VALID_ORDERS THEN 5
          ELSE IF Len(data) > 0 /\ At(data, 0) \in VALID_ORDERS THEN 0
          ELSE none
   IN
   IF Len(data) < 1 THEN Result(s, "ok")
   ELSE IF write_cmd_offset # none
   THEN LET s1 == [s EXCEPT !.tn3270e = (write_cmd_offset = 5)]
            cmd == At(data, write_cmd_offset)
            offset == write_cmd_offset + 1
        IN  IF cmd \in ERASE_COMMANDS
            THEN process_orders(clear(s1), data,
                    IF offset < Len(data) THEN offset + 1 ELSE offset, 0)
            ELSE IF cmd \in {ERASE_ALL_UNPROTECTED, CCW_ERASE_ALL_UNPROTECTED}
            THEN Result(erase_unprotected(s1), "ok")
            ELSE IF cmd = WRITE_STRUCTURED_FIELD
            THEN Result(s1, "ok")
            ELSE process_orders(s1, data,
                    IF offset < Len(data) THEN offset + 1 ELSE offset, 0)
   ELSE IF orders_only_offset # none
   THEN process_orders([s EXCEPT !.tn3270e = (orders_only_offset = 5)],
           data, orders_only_offset, 0)
   ELSE Result(s, "ok")


(***************************************************************************)
(* screen.py: field lookup, MDT and the outbound field extraction.         *)
(***************************************************************************)
\* The for loop of get_field_at from index i on; result is the index of the
\* field found so far, 0 for None.
RECURSIVE field_at_loop(_, _, _, _)
field_at_loop(fields, pos, i, result) ==
   IF i > Len(fields) THEN result
   ELSE IF fields[i].start_pos <= pos
        THEN field_at_loop(fields, pos, i + 1, i)
        ELSE IF result # 0 THEN result
             ELSE field_at_loop(fields, pos, i + 1, result)

\* get_field_at, as the index in fields of the Field it returns (0: None).
get_field_at(fields, pos) ==
   IF Len(fields) = 0 THEN 0
   ELSE LET result == field_at_loop(fields, pos, 1, 0)
        IN  IF result = 0 THEN Len(fields) ELSE result

mark_field_modified(s, pos) ==
   LET i == get_field_at(s.fields, pos)
   IN  IF i # 0 THEN [s EXCEPT !.fields[i].is_modified = TRUE] ELSE s

\* The characters str.rstrip() strips, among the code points below 256.
Whitespace == {9, 10, 11, 12, 13, 28, 29, 30, 31, 32, 133, 160}

\* A variant of rstrip that strips nothing: C5 depends on the trimming.
rstrip_nothing(text) == text

RECURSIVE rstrip(_)
rstrip(text) ==
   IF Len(text) > 0 /\ text[Len(text)] \in Whitespace
   THEN rstrip(SubSeq(text, 1, Len(text) - 1))
   ELSE text

\* The while True loop of get_modified_fields: the characters collected.
RECURSIVE field_content_loop(_, _, _, _)
field_content_loop(cells, start, pos, data) ==
   IF cells[pos].is_field_start THEN data
   ELSE LET data2 == Append(data, cells[pos].char)
            pos2 == (pos + 1) % SIZE
        IN  IF pos2 = start THEN data2
            ELSE field_content_loop(cells, start, pos2, data2)

RECURSIVE modified_fields_loop(_, _)
modified_fields_loop(s, i) ==
   IF i > Len(s.fields) THEN <<>>
   ELSE LET field == s.fields[i]
            start == (field.start_pos + 1) % SIZE
            content == rstrip(field_content_loop(s.cells, start, start, <<>>))
            rest == modified_fields_loop(s, i + 1)
        IN  IF field.is_modified /\ ~field.is_protected /\ Len(content) > 0
            THEN <<[start_pos |-> start, data |-> content]>> \o rest
            ELSE rest

get_modified_fields(s) == modified_fields_loop(s, 1)

\* A variant of clear_modified_flags that leaves the flags: C7 depends on
\* the clearing.
clear_modified_flags_nothing(s) == s

clear_modified_flags(s) ==
   [s EXCEPT !.fields = [i \in 1..Len(s.fields) |->
                           [s.fields[i] EXCEPT !.is_modified = FALSE]]]

is_unformatted(s) == Len(s.fields) = 0

get_unformatted_data(s) == rstrip([i \in 1..SIZE |-> s.cells[i - 1].char])

(***************************************************************************)
(* connection.py: TN3270Connection.  A connection value is the record of   *)
(* its fields, with socket TRUE for "not None", and with                   *)
(*   sock_ok  whether socket.sendall succeeds during the current handler   *)
(*            (an input of the handler),                                   *)
(*   out      the calls of socket.sendall made by the current handler,     *)
(*   cb       the observer callbacks invoked by the current handler,       *)
(*   framed   the units the framer cut during the current handler          *)
(*            (commands, subnegotiations, records), each with the          *)
(*            tn3270e_mode and the lengths of out and cb of that moment.   *)
(***************************************************************************)
TN3270Connection ==
   [socket |-> FALSE, connected |-> FALSE, tn3270e_mode |-> FALSE,
    negotiation_complete |-> FALSE, negotiated_functions |-> <<>>,
    sequence_number |-> 0, buffer |-> <<>>, running |-> FALSE,
    sock_ok |-> TRUE, out |-> <<>>, cb |-> <<>>, framed |-> <<>>, rx |-> <<>>]

\* A handler starts: its input, and nothing written or called back yet.
Enter(c, sock_ok) ==
   [c EXCEPT !.sock_ok = sock_ok, !.out = <<>>, !.cb = <<>>, !.framed = <<>>,
             !.rx = <<>>]

\* connect(), when socket.connect succeeds.
connect(c) ==
   [c EXCEPT !.socket = TRUE, !.connected = TRUE, !.running = TRUE,
             !.sequence_number = 0, !.cb = Append(@, <<"on_connect">>)]

disconnect(c) ==
   [c EXCEPT !.running = FALSE, !.connected = FALSE, !.tn3270e_mode = FALSE,
             !.negotiation_complete = FALSE, !.negotiated_functions = <<>>,
             !.sequence_number = 0, !.buffer = <<>>, !.socket = FALSE,
             !.cb = Append(@, <<"on_disconnect">>)]

handle_error(c) ==
   [c EXCEPT !.connected = FALSE, !.cb = Append(@, <<"on_error">>)]

send(c, data) ==
   IF ~c.socket \/ ~c.connected THEN c
   ELSE IF c.sock_ok
        THEN [c EXCEPT !.out = Append(@, [data |-> data, ok |-> TRUE])]
        ELSE disconnect(handle_error(
                [c EXCEPT !.out = Append(@, [data |-> data, ok |-> FALSE])]))

\* connect(), when socket.connect raises: the socket object stays, the
\* error is reported.
connect_failed(c) == handle_error([c EXCEPT !.socket = TRUE])

\* A variant of the increment that skips a number: C4 depends on the
\* increment by one.
sequence_number_skip(n) == (n + 2) % SeqModulus

\* (self._sequence_number + 1) & 0xFFFF
sequence_number_next(n) == (n + 1) % SeqModulus

\* build_tn3270e_header: the connection afterwards and the 5 bytes.
build_tn3270e_header(c, data_type) ==
   LET seq == c.sequence_number
   IN  [c |-> [c EXCEPT !.sequence_number = sequence_number_next(c.sequence_number)],
        header |-> <<data_type, 0, 0, (seq \div 256) % 256, seq % 256>>]

\* A variant of _handle_telnet_command that answers DO TN3270E without
\* entering TN3270E mode: C32 depends on the mode being set.
handle_telnet_command_no_mode(c, packet) ==
   LET cmd == At(packet, 1)
       opt == At(packet, 2)
   IN  IF cmd = DO /\ opt = OPT_TN3270E THEN send(c, <<IAC, WILL, opt>>)
       ELSE IF cmd = DO THEN send(c, <<IAC, WONT, opt>>)
       ELSE c

\* A variant in which WONT TN3270E drops the mode as DONT TN3270E does.
handle_telnet_command_wont_drops(c, packet) ==
   LET cmd == At(packet, 1)
       opt == At(packet, 2)
       supported == opt \in SUPPORTED_OPTIONS
       reply == CASE cmd = DO -> IF supported THEN WILL ELSE WONT
                  [] cmd = WILL -> IF supported THEN DO ELSE DONT
                  [] cmd = DONT -> WONT
                  [] OTHER -> DONT
       c2 == send(c, <<IAC, reply, opt>>)
   IN  IF cmd \notin {DO, WILL, DONT, WONT} THEN c
       ELSE IF opt = OPT_TN3270E /\ cmd = DO THEN [c2 EXCEPT !.tn3270e_mode = TRUE]
       ELSE IF opt = OPT_TN3270E /\ cmd \in {DONT, WONT}
       THEN [c2 EXCEPT !.tn3270e_mode = FALSE]
       ELSE c2

\* A variant that accepts every option, supported or not.
handle_telnet_command_accept_all(c, packet) ==
   LET cmd == At(packet, 1)
       opt == At(packet, 2)
   IN  IF cmd = DO
       THEN LET c2 == send(c, <<IAC, WILL, opt>>)
            IN  IF opt = OPT_TN3270E THEN [c2 EXCEPT !.tn3270e_mode = TRUE] ELSE c2
       ELSE IF cmd = WILL
       THEN send(c, <<IAC, DO, opt>>)
       ELSE IF cmd = DONT
       THEN LET c2 == send(c, <<IAC, WONT, opt>>)
            IN  IF opt = OPT_TN3270E THEN [c2 EXCEPT !.tn3270e_mode = FALSE] ELSE c2
       ELSE IF cmd = WONT
       THEN send(c, <<IAC, DONT, opt>>)
       ELSE c

\* _handle_telnet_command: the reply to IAC cmd opt.
handle_telnet_command(c, packet) ==
   LET cmd == At(packet, 1)
       opt == At(packet, 2)
   IN  IF cmd = DO
       THEN IF opt \in SUPPORTED_OPTIONS
            THEN LET c2 == send(c, <<IAC, WILL, opt>>)
                 IN  IF opt = OPT_TN3270E THEN [c2 EXCEPT !.tn3270e_mode = TRUE] ELSE c2
            ELSE send(c, <<IAC, WONT, opt>>)
       ELSE IF cmd = WILL
       THEN IF opt \in SUPPORTED_OPTIONS
            THEN send(c, <<IAC, DO, opt>>)
            ELSE send(c, <<IAC, DONT, opt>>)
       ELSE IF cmd = DONT
       THEN LET c2 == send(c, <<IAC, WONT, opt>>)
            IN  IF opt = OPT_TN3270E THEN [c2 EXCEPT !.tn3270e_mode = FALSE] ELSE c2
       ELSE IF cmd = WONT
       THEN send(c, <<IAC, DONT, opt>>)
       ELSE c


(***************************************************************************)
(* connection.py: the subnegotiations, the Query Reply and the framer.     *)
(***************************************************************************)
TN3270E_DEVICE_TYPE == 2
TN3270E_FUNCTIONS == 3
TN3270E_IS == 4
TN3270E_REJECT == 6
TN3270E_REQUEST == 7
TN3270E_SEND == 8
TN3270E_FUNC_BIND_IMAGE == 0
TN3270E_FUNC_RESPONSES == 4
TN3270E_FUNC_SYSREQ == 5

\* b'IBM-3278-2-E'
TERMINAL_TYPE == <<73, 66, 77, 45, 51, 50, 55, 56, 45, 50, 45, 69>>

\* data[n:]
Drop(data, n) == SubSeq(data, n + 1, Len(data))

\* A variant that keeps the closing IAC SE among the functions.
handle_tn3270e_subnegotiation_keep_se(c, packet) ==
   IF Len(packet) < 5 THEN c
   ELSE LET sub_cmd == At(packet, 3)
        IN  IF sub_cmd = TN3270E_SEND /\ At(packet, 4) = TN3270E_DEVICE_TYPE
            THEN send(c, <<IAC, SB, OPT_TN3270E, TN3270E_DEVICE_TYPE, TN3270E_REQUEST>>
                            \o TERMINAL_TYPE \o <<IAC, SE>>)
            ELSE IF sub_cmd = TN3270E_DEVICE_TYPE /\ At(packet, 4) = TN3270E_IS
            THEN send(c, <<IAC, SB, OPT_TN3270E, TN3270E_FUNCTIONS, TN3270E_REQUEST,
                           TN3270E_FUNC_BIND_IMAGE, TN3270E_FUNC_RESPONSES,
                           TN3270E_FUNC_SYSREQ, IAC, SE>>)
            ELSE IF sub_cmd = TN3270E_FUNCTIONS /\ At(packet, 4) = TN3270E_IS
            THEN [c EXCEPT !.negotiated_functions = SubSeq(packet, 6, Len(packet)),
                           !.negotiation_complete = TRUE]
            ELSE IF sub_cmd = TN3270E_REJECT
            THEN [c EXCEPT !.tn3270e_mode = FALSE]
            ELSE c

\* _handle_tn3270e_subnegotiation, for the packet IAC SB TN3270E ... IAC SE.
handle_tn3270e_subnegotiation(c, packet) ==
   IF Len(packet) < 5 THEN c
   ELSE LET sub_cmd == At(packet, 3)
        IN  IF sub_cmd = TN3270E_SEND /\ At(packet, 4) = TN3270E_DEVICE_TYPE
            THEN send(c, <<IAC, SB, OPT_TN3270E, TN3270E_DEVICE_TYPE, TN3270E_REQUEST>>
                            \o TERMINAL_TYPE \o <<IAC, SE>>)
            ELSE IF sub_cmd = TN3270E_DEVICE_TYPE /\ At(packet, 4) = TN3270E_IS
            THEN send(c, <<IAC, SB, OPT_TN3270E, TN3270E_FUNCTIONS, TN3270E_REQUEST,
                           TN3270E_FUNC_BIND_IMAGE, TN3270E_FUNC_RESPONSES,
                           TN3270E_FUNC_SYSREQ, IAC, SE>>)
            ELSE IF sub_cmd = TN3270E_FUNCTIONS /\ At(packet, 4) = TN3270E_IS
            THEN [c EXCEPT !.negotiated_functions = SubSeq(packet, 6, Len(packet) - 2),
                           !.negotiation_complete = TRUE]
            ELSE IF sub_cmd = TN3270E_REJECT
            THEN [c EXCEPT !.tn3270e_mode = FALSE]
            ELSE c

\* _handle_subnegotiation, for the packet IAC SB opt ... IAC SE.
handle_subnegotiation(c, packet) ==
   IF Len(packet) < 4 THEN c
   ELSE LET opt == At(packet, 2)
        IN  IF opt = OPT_TERMINAL_TYPE
            THEN IF At(packet, 3) = 1
                 THEN send(c, <<IAC, SB, OPT_TERMINAL_TYPE, 0>> \o TERMINAL_TYPE
                                 \o <<IAC, SE>>)
                 ELSE c
            ELSE IF opt = OPT_TN3270E
            THEN handle_tn3270e_subnegotiation(c, packet)
            ELSE c

\* A variant that never skips a TN3270E header.
is_query_request_no_header(c, record) ==
   LET n == Len(record)
       data == IF n >= 2 /\ At(record, n - 2) = IAC /\ At(record, n - 1) = EOR
               THEN SubSeq(record, 1, n - 2)
               ELSE record
   IN  IF 0 >= Len(data) THEN FALSE
       ELSE /\ At(data, 0) = WRITE_STRUCTURED_FIELD
            /\ 3 < Len(data)
            /\ At(data, 3) = 1

\* _is_query_request: a Write Structured Field whose first structured
\* field has the id 0x01, after the TN3270E header if there is one.
is_query_request(c, record) ==
   LET n == Len(record)
       data == IF n >= 2 /\ At(record, n - 2) = IAC /\ At(record, n - 1) = EOR
               THEN SubSeq(record, 1, n - 2)
               ELSE record
       offset == IF c.tn3270e_mode /\ Len(data) >= 5 /\ At(data, 0) = 0 THEN 5 ELSE 0
   IN  IF offset >= Len(data) THEN FALSE
       ELSE /\ At(data, offset) = WRITE_STRUCTURED_FIELD
            /\ offset + 1 + 2 < Len(data)
            /\ At(data, offset + 1 + 2) = 1

\* The eight parts.extend([...]) of _send_query_reply.
QR_SUMMARY ==
   <<0, 14, 129, 128, 128, 129, 132, 133, 134, 135, 136, 149, 161, 166>>
QR_USABLE_AREA ==
   <<0, 23, 129, 129, 1, 0, 0, 80, 0, 24, 1, 0, 10, 2, 229, 0, 2, 0, 111,
     9, 12, 10, 0, 0>>
QR_ALPHANUMERIC_PARTITIONS == <<0, 8, 129, 132, 0, 10, 0, 0>>
QR_CHARACTER_SETS ==
   <<0, 27, 129, 133, 130, 0, 9, 12, 0, 0, 0, 0, 7, 0, 16, 0, 2, 185, 0, 37,
     1, 0, 241, 3, 195, 1, 54>>
QR_COLOR ==
   <<0, 38, 129, 134, 0, 16, 0, 244, 241, 241, 242, 242, 243, 243, 244, 244,
     245, 245, 246, 246, 247, 247, 248, 248, 249, 249, 250, 250, 251, 251,
     252, 252, 253, 253, 254, 254, 255, 255, 255, 255>>
QR_HIGHLIGHTING ==
   <<0, 15, 129, 135, 5, 0, 240, 241, 241, 242, 242, 244, 244, 248, 248>>
QR_REPLY_MODES == <<0, 7, 129, 136, 0, 1, 2>>
QR_IMPLICIT_PARTITION ==
   <<0, 17, 129, 166, 0, 0, 11, 1, 0, 0, 80, 0, 24, 0, 80, 0, 32>>

\* The AID of a structured-field record.
AID_SF == 136

send_query_reply(c) ==
   LET hb == IF c.tn3270e_mode THEN build_tn3270e_header(c, 0)
             ELSE [c |-> c, header |-> <<>>]
       parts == hb.header \o <<AID_SF>> \o QR_SUMMARY \o QR_USABLE_AREA
                   \o QR_ALPHANUMERIC_PARTITIONS \o QR_CHARACTER_SETS \o QR_COLOR
                   \o QR_HIGHLIGHTING \o QR_REPLY_MODES \o QR_IMPLICIT_PARTITION
                   \o <<IAC, EOR>>
   IN  send(hb.c, parts)

\* The index of the first IAC SE at 2 or later, or -1.
find_subneg_end(buffer) ==
   LET found == { i \in 2..(Len(buffer) - 2) :
                     At(buffer, i) = IAC /\ At(buffer, i + 1) = SE }
   IN  IF found = {} THEN -1 ELSE CHOOSE i \in found : \A j \in found : i <= j

\* A variant that finds the last IAC EOR of the buffer.
find_eor_last(buffer) ==
   LET found == { i \in 0..(Len(buffer) - 2) :
                     At(buffer, i) = IAC /\ At(buffer, i + 1) = EOR }
   IN  IF found = {} THEN -1 ELSE CHOOSE i \in found : \A j \in found : i >= j

\* The index of the first IAC EOR, or -1.
find_eor(buffer) ==
   LET found == { i \in 0..(Len(buffer) - 2) :
                     At(buffer, i) = IAC /\ At(buffer, i + 1) = EOR }
   IN  IF found = {} THEN -1 ELSE CHOOSE i \in found : \A j \in found : i <= j

\* The state _process_buffer and the on_data observer work on: the
\* connection, the screen, the terminal's cursor, and how the loop ended
\* ("ok", "raise" for an exception that leaves it, "hang").
Rx(c, s, cursor_pos, status) ==
   [c |-> c, s |-> s, cursor_pos |-> cursor_pos, status |-> status]

\* MainWindow._on_data after process_data has ended with r: set_cursor_pos
\* unless an exception or an endless loop kept it from running.
on_data_done(c, r, cursor_pos) ==
   IF r.status = "ok"
   THEN Rx(c, r.s, r.s.cursor_pos % (ROWS * COLS), "ok")
   ELSE Rx(c, r.s, cursor_pos, r.status)

\* MainWindow._on_data, the on_data observer.
on_data(c, s, cursor_pos, record) ==
   on_data_done([c EXCEPT !.cb = Append(@, <<"on_data", record>>)],
                process_data(s, record), cursor_pos)

\* The framer cuts a unit off the buffer.
frame(c, kind, data) ==
   [c EXCEPT !.framed = Append(@, [kind |-> kind, data |-> data,
                                   tn3270e_mode |-> c.tn3270e_mode,
                                   n_out |-> Len(c.out), n_cb |-> Len(c.cb)])]

RECURSIVE process_buffer(_, _, _)

\* The loop goes on after on_data has returned; an exception leaves it.
process_buffer_next(r) ==
   IF r.status = "ok" THEN process_buffer(r.c, r.s, r.cursor_pos) ELSE r

process_buffer(c, s, cursor_pos) ==
   LET buffer == c.buffer
       cmd == At(buffer, 1)
   IN  IF Len(buffer) = 0 THEN Rx(c, s, cursor_pos, "ok")
       ELSE IF At(buffer, 0) = IAC /\ Len(buffer) >= 2 /\ cmd \in {DO, DONT, WILL, WONT}
       THEN IF Len(buffer) >= 3
            THEN LET c2 == handle_telnet_command(frame(c, "telnet", SubSeq(buffer, 1, 3)),
                                                 SubSeq(buffer, 1, 3))
                 IN  process_buffer([c2 EXCEPT !.buffer = Drop(@, 3)], s, cursor_pos)
            ELSE Rx(c, s, cursor_pos, "ok")
       ELSE IF At(buffer, 0) = IAC /\ Len(buffer) >= 2 /\ cmd = SB
       THEN LET se_index == find_subneg_end(buffer)
            IN  IF se_index # -1
                THEN LET c2 == handle_subnegotiation(
                                  frame(c, "subneg", SubSeq(buffer, 1, se_index + 2)),
                                  SubSeq(buffer, 1, se_index + 2))
                     IN  process_buffer([c2 EXCEPT !.buffer = Drop(@, se_index + 2)],
                                        s, cursor_pos)
                ELSE Rx(c, s, cursor_pos, "ok")
       ELSE IF At(buffer, 0) = IAC /\ Len(buffer) >= 2 /\ cmd = EOR
       THEN process_buffer([c EXCEPT !.buffer = Drop(@, 2)], s, cursor_pos)
       ELSE IF At(buffer, 0) = IAC /\ Len(buffer) >= 2 /\ cmd = IAC
       THEN process_buffer([c EXCEPT !.buffer = Drop(@, 1)], s, cursor_pos)
       ELSE LET eor_index == find_eor(buffer)
            IN  IF eor_index # -1
                THEN LET record == SubSeq(buffer, 1, eor_index + 2)
                         c2 == frame([c EXCEPT !.buffer = Drop(@, eor_index + 2)],
                                     "record", record)
                     IN  IF is_query_request(c2, record)
                         THEN process_buffer(send_query_reply(c2), s, cursor_pos)
                         ELSE process_buffer_next(on_data(c2, s, cursor_pos, record))
                ELSE Rx(c, s, cursor_pos, "ok")

\* The except clauses of _receive_loop, for the outcome r of _process_buffer.
receive_done(r) ==
   IF r.status = "raise" /\ r.c.running
   THEN Rx(disconnect(handle_error(r.c)), r.s, r.cursor_pos, "raise")
   ELSE r

\* A variant of the turn of _receive_loop that frames each segment on its
\* own, forgetting the bytes an earlier segment left waiting: C37 depends on
\* the accumulating buffer.
receive_segment_alone(c, s, cursor_pos, data) ==
   IF Len(data) = 0 THEN Rx(disconnect(c), s, cursor_pos, "ok")
   ELSE receive_done(process_buffer([c EXCEPT !.buffer = data, !.rx = data],
                                    s, cursor_pos))

\* One turn of _receive_loop for the data recv returned.  rx notes the buffer
\* _process_buffer starts from.
receive(c, s, cursor_pos, data) ==
   IF Len(data) = 0 THEN Rx(disconnect(c), s, cursor_pos, "ok")
   ELSE receive_done(process_buffer([c EXCEPT !.buffer = @ \o data,
                                               !.rx = c.buffer \o data],
                                    s, cursor_pos))

(***************************************************************************)
(* main_window.py: _send_aid, for an aid_name of AIDS and a connected      *)
(* connection.  The screen and the connection afterwards.                  *)
(***************************************************************************)
RECURSIVE field_parts(_)
field_parts(mfields) ==
   IF Len(mfields) = 0 THEN <<>>
   ELSE <<SBA>> \o encode_buffer_address(mfields[1].start_pos)
           \o ascii_to_ebcdic(mfields[1].data) \o field_parts(Tail(mfields))

send_aid(s, c, cursor_pos, aid_name) ==
   LET hb == IF c.tn3270e_mode THEN build_tn3270e_header(c, 0)
             ELSE [c |-> c, header |-> <<>>]
       field_data ==
          IF aid_name \notin short_read_aids
          THEN IF is_unformatted(s)
               THEN ascii_to_ebcdic(get_unformatted_data(s))
               ELSE field_parts(get_modified_fields(s))
          ELSE <<>>
       parts == hb.header \o <<AIDS[aid_name]>> \o encode_buffer_address(cursor_pos)
                   \o field_data \o <<IAC, EOR>>
   IN  [s |-> clear_modified_flags(s), c |-> send(hb.c, parts)]

(***************************************************************************)
(* The state.  screen, conn and terminal_cursor_pos are the ScreenBuffer,  *)
(* the TN3270Connection and TerminalWidget.cursor_pos.  rx_status tells    *)
(* whether the receive task is stuck in a loop that never ends.  last_op   *)
(* names the handler that ran last and its input or outcome.  n_records,   *)
(* n_keys, n_aids, n_telnet and n_chunks count the handlers run, for the   *)
(* bounds.                                                                 *)
(***************************************************************************)
VARIABLES screen, conn, terminal_cursor_pos, rx_status, last_op,
          n_records, n_keys, n_aids, n_telnet, n_chunks, mt

vars == <<screen, conn, terminal_cursor_pos, rx_status, last_op,
          n_records, n_keys, n_aids, n_telnet, n_chunks, mt>>

\* A record without its closing IAC EOR.
RecordBody(record) == SubSeq(record, 1, Len(record) - 2)

\* The inbound records of the model: a write command, a WCC and up to
\* MaxOrders orders, each with operands, closed by IAC EOR.  The screen of
\* the model has SIZE cells, so address 64 lies beyond it as address 1920
\* and above lie beyond the 24 x 80 screen.
OrderSet ==
   { <<SBA, 0, 4>>,            \* SBA to address 4 (14-bit form)
     <<SBA, 193, 64>>,         \* SBA to address 64 (12-bit form)
     <<SF, 64>>,               \* SF unprotected
     <<SF, 96>>,               \* SF protected
     <<SF, 193>>,              \* SF unprotected, MDT set
     <<193>> }                 \* the character A

\* The orders of the parser specification.
ParseOrderSet ==
   { <<SBA, 0, 4>>,
     <<SBA, 193, 64>>,
     <<SF, 64>>,
     <<SF, 124>>,              \* protected, numeric, hidden
     <<193>>,
     <<IC>>,
     <<PT>>,
     <<RA, 64, 194, 92>>,      \* RA to address 2 with *
     <<RA, 193, 64, 92>>,      \* RA to address 64 with *
     <<EUA, 64, 195>>,         \* EUA to address 3
     <<EUA, 193, 64>>,         \* EUA to address 64
     <<SFE, 1, ATTR_T3270, 72>> }   \* unprotected, intensified

RECURSIVE OrderStrings(_, _)
OrderStrings(orders, n) ==
   IF n = 0 THEN { <<>> }
   ELSE LET shorter == OrderStrings(orders, n - 1)
        IN  shorter \cup { o \o t : o \in orders, t \in shorter }

CommandSet == { ERASE_WRITE, WRITE }

Records ==
   { <<cmd, 195>> \o body \o <<IAC, EOR>> :
        cmd \in CommandSet, body \in OrderStrings(OrderSet, MaxOrders) }

\* Erase All Unprotected, and records of orders with no write command.
ParseOtherRecords ==
   { <<ERASE_ALL_UNPROTECTED, IAC, EOR>>,
     <<CCW_ERASE_ALL_UNPROTECTED, IAC, EOR>>,
     <<SF, 64, 193, IAC, EOR>>,
     <<SBA, 0, 2, SF, 96, 194, IAC, EOR>>,
     <<WRITE, 195, SF, 193, 194, IAC, EOR>> }     \* SF unprotected, MDT set

\* Records with a TN3270E header (DATA-TYPE 0 and 1), and header-less
\* records whose sixth byte is the code of a write command.
ParseHeaderRecords ==
   { <<0, 0, 0, 0, 0, ERASE_WRITE, 195, 193, IAC, EOR>>,
     <<1, 0, 0, 0, 0, ERASE_WRITE, 195, 193, IAC, EOR>>,
     <<ERASE_WRITE, 195, 194, 194, 194, WRITE, 194, IAC, EOR>>,
     <<WRITE, 195, 193, 193, 193, ERASE_WRITE, 193, 194, IAC, EOR>> }

\* Records that end inside the operand of their last order.
ParseTruncatedRecords ==
   { <<WRITE, 195, 193>> \o order \o <<IAC, EOR>> :
        order \in { <<SBA, 64>>, <<SF>>, <<SFE>>, <<SFE, 1>>,
                    <<SFE, 2, ATTR_T3270, 64, 65>>, <<SA, ATTR_FOREGROUND_COLOR>>,
                    <<RA, 64, 194>>, <<EUA, 64>>, <<MF>>, <<GE>> } }

ParseRecords ==
   { <<cmd, 195>> \o body \o <<IAC, EOR>> :
        cmd \in CommandSet, body \in OrderStrings(ParseOrderSet, MaxOrders) }
   \cup ParseOtherRecords \cup ParseHeaderRecords \cup ParseTruncatedRecords

AidNames == { "ENTER", "PA1" }
TypedChars == { 65 }
CursorKeys == { "Up", "Down", "Left", "Right", "Tab", "BackTab", "Home" }

\* The two tasks that send, and where each stands in its send: the
\* application (GUI) thread in _send_aid, the receive thread in
\* _send_query_reply.  seq and tmp are the values the thread has read from
\* _sequence_number, data the record it has built, lock the holder of
\* _lock, wire the calls of sendall in the order the socket took them, k
\* and q the AIDs and the Query Replies begun since connect, k0 the AIDs
\* sent before the first state.
Threads == { "app", "rcv" }

MtIdle ==
   [pc |-> [t \in Threads |-> "idle"], seq |-> [t \in Threads |-> 0],
    tmp |-> [t \in Threads |-> 0], data |-> [t \in Threads |-> <<>>],
    tag |-> [t \in Threads |-> [kind |-> "", aid_name |-> "", k |-> 0, q |-> 0]],
    lock |-> "free", wire |-> <<>>, k0 |-> 0, k |-> 0, q |-> 0]

Init ==
   /\ screen = ScreenBuffer
   /\ conn = connect(TN3270Connection)
   /\ terminal_cursor_pos = 0
   /\ rx_status = "idle"
   /\ last_op = [op |-> "connect", arg |-> ""]
   /\ n_records = 0
   /\ n_keys = 0
   /\ n_aids = 0
   /\ n_telnet = 0
   /\ n_chunks = 0
   /\ mt = MtIdle

\* MainWindow._connect after a disconnect: connection.connect().
Connect ==
   /\ ~conn.connected
   /\ rx_status = "idle"
   /\ conn' = connect(Enter(conn, TRUE))
   /\ last_op' = [op |-> "connect", arg |-> ""]
   /\ UNCHANGED <<screen, terminal_cursor_pos, rx_status, n_records, n_keys, n_aids, n_telnet, n_chunks, mt>>

\* The receive task frames a Telnet command: _handle_telnet_command.
TelnetCommand(cmd, opt, sock_ok) ==
   /\ conn.connected
   /\ rx_status = "idle"
   /\ n_telnet < MaxTelnet
   /\ conn' = handle_telnet_command(Enter(conn, sock_ok), <<IAC, cmd, opt>>)
   /\ last_op' = [op |-> "telnet", arg |-> ""]
   /\ n_telnet' = n_telnet + 1
   /\ UNCHANGED <<screen, terminal_cursor_pos, rx_status, n_records, n_keys, n_aids, n_chunks, mt>>

\* The receive task delivers a record: on_data -> MainWindow._on_data ->
\* process_data, then terminal.set_cursor_pos.  An exception leaves
\* _process_buffer and is caught in _receive_loop: _handle_error, disconnect.
OnData(record) ==
   /\ conn.connected
   /\ rx_status = "idle"
   /\ n_records < MaxRecords
   /\ \E r \in { on_data(Enter(conn, TRUE), screen, terminal_cursor_pos, record) } :
          /\ screen' = r.s
          /\ terminal_cursor_pos' = r.cursor_pos
          /\ conn' = IF r.status = "raise"
                     THEN disconnect(handle_error(r.c))
                     ELSE r.c
          /\ rx_status' = IF r.status = "hang" THEN "hung" ELSE "idle"
          /\ last_op' = [op |-> "data", arg |-> r.status]
   /\ n_records' = n_records + 1
   /\ UNCHANGED <<n_keys, n_aids, n_telnet, n_chunks, mt>>

\* TerminalWidget.keyPressEvent for a cursor key.
CursorKey(key) ==
   /\ n_keys < MaxKeys
   /\ terminal_cursor_pos' =
         (CASE key = "Up" -> (terminal_cursor_pos - COLS + SIZE) % SIZE
            [] key = "Down" -> (terminal_cursor_pos + COLS) % SIZE
            [] key = "Left" -> (terminal_cursor_pos - 1 + SIZE) % SIZE
            [] key = "Right" -> (terminal_cursor_pos + 1) % SIZE
            [] key = "Tab" -> get_next_input_field(screen.cells, terminal_cursor_pos)
            [] key = "BackTab" -> get_prev_input_field(screen.cells, terminal_cursor_pos)
            [] key = "Home" -> get_first_input_field(screen.cells)) % (ROWS * COLS)
   /\ conn' = Enter(conn, TRUE)
   /\ last_op' = [op |-> "key", arg |-> ""]
   /\ n_keys' = n_keys + 1
   /\ UNCHANGED <<screen, rx_status, n_records, n_aids, n_telnet, n_chunks, mt>>

\* keyPressEvent for Backspace and Delete.
EraseKey(key) ==
   /\ n_keys < MaxKeys
   /\ LET new_pos == IF key = "Backspace"
                     THEN (terminal_cursor_pos - 1 + SIZE) % SIZE
                     ELSE terminal_cursor_pos
      IN  /\ screen' = [screen EXCEPT !.cells[new_pos].char = 32]
          /\ terminal_cursor_pos' = new_pos % (ROWS * COLS)
   /\ conn' = Enter(conn, TRUE)
   /\ last_op' = [op |-> "key", arg |-> ""]
   /\ n_keys' = n_keys + 1
   /\ UNCHANGED <<rx_status, n_records, n_aids, n_telnet, n_chunks, mt>>

\* keyPressEvent for a printable character.
type_char(s, cursor_pos, text) ==
   IF s.cells[cursor_pos].is_protected \/ s.cells[cursor_pos].is_field_start
   THEN [s |-> s, cursor_pos |-> cursor_pos]
   ELSE [s |-> mark_field_modified([s EXCEPT !.cells[cursor_pos].char = text],
                                   cursor_pos),
         cursor_pos |-> ((cursor_pos + 1) % SIZE) % (ROWS * COLS)]

TypeChar(text) ==
   /\ n_keys < MaxKeys
   /\ \E r \in { type_char(screen, terminal_cursor_pos, text) } :
          /\ screen' = r.s
          /\ terminal_cursor_pos' = r.cursor_pos
   /\ conn' = Enter(conn, TRUE)
   /\ last_op' = [op |-> "type", arg |-> ""]
   /\ n_keys' = n_keys + 1
   /\ UNCHANGED <<rx_status, n_records, n_aids, n_telnet, n_chunks, mt>>

\* MainWindow._send_aid.
SendAid(aid_name, sock_ok) ==
   /\ n_aids < MaxAids
   /\ IF ~conn.connected
      THEN /\ screen' = screen
           /\ conn' = Enter(conn, sock_ok)
           /\ last_op' = [op |-> "aid-unconnected", arg |-> aid_name]
      ELSE \E r \in { send_aid(screen, Enter(conn, sock_ok), terminal_cursor_pos, aid_name) } :
               /\ screen' = r.s
               /\ conn' = r.c
               /\ last_op' = [op |-> "aid", arg |-> aid_name]
   /\ n_aids' = n_aids + 1
   /\ UNCHANGED <<terminal_cursor_pos, rx_status, n_records, n_keys, n_telnet, n_chunks, mt>>

Next ==
   \/ Connect
   \/ TelnetCommand(DO, OPT_TN3270E, TRUE)
   \/ \E record \in Records : OnData(record)
   \/ \E key \in CursorKeys : CursorKey(key)
   \/ \E key \in {"Backspace", "Delete"} : EraseKey(key)
   \/ \E text \in TypedChars : TypeChar(text)
   \/ \E aid_name \in AidNames : SendAid(aid_name, TRUE)

Spec == Init /\ [][Next]_vars

(***************************************************************************)
(* The parser specification: the receive task delivers records drawn from  *)
(* every order the parser knows, and the user reconnects after an error.   *)
(***************************************************************************)
NextParse ==
   \/ Connect
   \/ TelnetCommand(DO, OPT_TN3270E, TRUE)
   \/ \E record \in ParseRecords : OnData(record)

SpecParse == Init /\ [][NextParse]_vars

(***************************************************************************)
(* The connection specification: the receive task takes what recv returns, *)
(* chunk by chunk, with sends that succeed or fail; the server closes; the *)
(* user disconnects and connects again.                                    *)
(***************************************************************************)
TelnetCommands ==
   { <<IAC, cmd, opt>> : cmd \in {DO, DONT, WILL, WONT},
                         opt \in SUPPORTED_OPTIONS \cup {1} }

Subnegotiations ==
   { <<IAC, SB, OPT_TERMINAL_TYPE, 1, IAC, SE>>,
     <<IAC, SB, OPT_TN3270E, TN3270E_SEND, TN3270E_DEVICE_TYPE, IAC, SE>>,
     <<IAC, SB, OPT_TN3270E, TN3270E_DEVICE_TYPE, TN3270E_IS, 73, IAC, SE>>,
     <<IAC, SB, OPT_TN3270E, TN3270E_FUNCTIONS, TN3270E_IS, 0, 4, IAC, SE>>,
     <<IAC, SB, OPT_TN3270E, TN3270E_REJECT, 0, IAC, SE>>,
     <<IAC, SB, OPT_TERMINAL_TYPE, 0, 73, IAC, SE>>,
     <<IAC, SB, OPT_TN3270E, TN3270E_DEVICE_TYPE, TN3270E_REJECT, 0, IAC, SE>> }

\* Read Partition Query, with the 0xFF of its operand doubled.
QueryRecord == <<WRITE_STRUCTURED_FIELD, 0, 5, 1, IAC, IAC, 2, IAC, EOR>>

ConnRecords ==
   { QueryRecord,
     <<0, 0, 0, 0, 0>> \o QueryRecord,          \* with a 3270-DATA header
     <<2, 0, 0, 0, 0>> \o QueryRecord,          \* with a RESPONSE header
     <<WRITE_STRUCTURED_FIELD, 0, 5, IAC, EOR>>,
     <<ERASE_WRITE, 195, 193, IAC, EOR>>,
     <<0, 0, 0, 0, 0, ERASE_WRITE, 195, 193, IAC, EOR>>,
     <<ERASE_WRITE, 195, SBA, 193, 64, 193, IAC, EOR>>,
     <<ERASE_WRITE, 195, EUA, 193, 64, IAC, EOR>>,
     \* two records in one segment
     <<0, 0, 0, 0, 0>> \o QueryRecord
        \o <<0, 0, 0, 0, 0, ERASE_WRITE, 195, 193, IAC, EOR>>,
     \* records, a command and a subnegotiation in one segment
     <<IAC, DO, OPT_BINARY, ERASE_WRITE, 195, 193, IAC, EOR,
       IAC, SB, OPT_TERMINAL_TYPE, 1, IAC, SE>>
        \o QueryRecord \o <<WRITE, 195, 194, IAC, EOR>> }

\* Parts of the above, as recv returns them when a segment ends early.
Pieces ==
   { <<IAC>>, <<IAC, DO>>, <<OPT_TN3270E>>,
     <<WRITE_STRUCTURED_FIELD, 0, 5>>, <<1, IAC, EOR>>, <<IAC, SB, OPT_TN3270E>> }

\* Segments with an escaped 0xFF (IAC IAC) as data: before bytes that read
\* as a command, and before a byte 0xEF inside a record.
EscapedRecords ==
   { <<IAC, IAC, DO, OPT_TN3270E, 193, IAC, EOR>>,
     <<ERASE_WRITE, 195, IAC, IAC, EOR, 193, IAC, EOR>> }

Chunks ==
   TelnetCommands \cup Subnegotiations \cup ConnRecords \cup Pieces
      \cup EscapedRecords

Receive(data, sock_ok) ==
   /\ conn.running
   /\ conn.socket
   /\ rx_status = "idle"
   /\ n_chunks < MaxChunks
   /\ \E r \in { receive(Enter(conn, sock_ok), screen, terminal_cursor_pos, data) } :
          /\ conn' = r.c
          /\ screen' = r.s
          /\ terminal_cursor_pos' = r.cursor_pos
          /\ rx_status' = IF r.status = "hang" THEN "hung" ELSE "idle"
          /\ last_op' = [op |-> "receive", arg |-> r.status]
   /\ n_chunks' = n_chunks + 1
   /\ UNCHANGED <<n_records, n_keys, n_aids, n_telnet, mt>>

\* recv returns no data: the server closed the connection.
ServerClose ==
   /\ conn.running
   /\ conn.socket
   /\ rx_status = "idle"
   /\ conn' = receive(Enter(conn, TRUE), screen, terminal_cursor_pos, <<>>).c
   /\ last_op' = [op |-> "close", arg |-> ""]
   /\ UNCHANGED <<screen, terminal_cursor_pos, rx_status, n_records, n_keys, n_aids,
                  n_telnet, n_chunks, mt>>

\* MainWindow._disconnect.
Disconnect ==
   /\ conn.connected
   /\ conn' = disconnect(Enter(conn, TRUE))
   /\ screen' = clear(screen)
   /\ last_op' = [op |-> "disconnect", arg |-> ""]
   /\ UNCHANGED <<terminal_cursor_pos, rx_status, n_records, n_keys, n_aids,
                  n_telnet, n_chunks, mt>>

\* MainWindow._connect when socket.connect times out or is refused.
ConnectFails ==
   /\ ~conn.connected
   /\ rx_status = "idle"
   /\ conn' = connect_failed(Enter(conn, TRUE))
   /\ last_op' = [op |-> "connect_failed", arg |-> ""]
   /\ UNCHANGED <<screen, terminal_cursor_pos, rx_status, n_records, n_keys, n_aids,
                  n_telnet, n_chunks, mt>>

\* MainWindow.closeEvent: connection.disconnect(), whatever the state of
\* the connection, and the window is gone.
CloseEvent ==
   /\ rx_status # "closed"
   /\ conn' = disconnect(Enter(conn, TRUE))
   /\ rx_status' = "closed"
   /\ last_op' = [op |-> "close_event", arg |-> ""]
   /\ UNCHANGED <<screen, terminal_cursor_pos, n_records, n_keys, n_aids,
                  n_telnet, n_chunks, mt>>

NextConn ==
   \/ Connect
   \/ \E data \in Chunks, sock_ok \in BOOLEAN : Receive(data, sock_ok)
   \/ ServerClose
   \/ Disconnect
   \/ CloseEvent
   \/ ConnectFails

SpecConn == Init /\ [][NextConn]_vars

(***************************************************************************)
(* The sends of two threads, statement by statement.  The application      *)
(* thread runs _send_aid and the receive thread runs _send_query_reply;    *)
(* each builds its TN3270E header with build_tn3270e_header, which reads   *)
(* _sequence_number and stores the increment without holding _lock, and    *)
(* then calls send(), which holds _lock around sendall only.               *)
(***************************************************************************)
MaxSends == 2
MaxQueries == 2

\* The states after TN3270E was negotiated and k0 AIDs were sent with no
\* Query Reply: the counter stands at k0 mod 2^16.
InitSend ==
   /\ screen = ScreenBuffer
   /\ terminal_cursor_pos = 0
   /\ rx_status = "running"
   /\ last_op = [op |-> "init", arg |-> ""]
   /\ n_records = 0
   /\ n_keys = 0
   /\ n_aids = 0
   /\ n_telnet = 0
   /\ n_chunks = 0
   /\ \E k0 \in { 0, SeqModulus - 1 } :
         /\ conn = [connect(TN3270Connection) EXCEPT
                       !.tn3270e_mode = TRUE, !.negotiation_complete = TRUE,
                       !.sequence_number = k0 % SeqModulus, !.cb = <<>>]
         /\ mt = [MtIdle EXCEPT !.k0 = k0, !.k = k0]

\* _send_aid begins on the application thread: connected, a known AID.
StartAid(aid_name) ==
   /\ mt.pc["app"] = "idle"
   /\ mt.k - mt.k0 < MaxSends
   /\ conn.connected
   /\ aid_name \in DOMAIN AIDS
   /\ mt' = [mt EXCEPT !.pc["app"] = IF conn.tn3270e_mode THEN "load" ELSE "build",
                       !.tag["app"] = [kind |-> "aid", aid_name |-> aid_name,
                                       k |-> mt.k, q |-> mt.q],
                       !.k = @ + 1]
   /\ UNCHANGED <<screen, conn, terminal_cursor_pos, rx_status, last_op,
                  n_records, n_keys, n_aids, n_telnet, n_chunks>>

\* _send_query_reply begins on the receive thread, a Read Partition Query
\* having been framed.
StartQueryReply ==
   /\ mt.pc["rcv"] = "idle"
   /\ mt.q < MaxQueries
   /\ mt' = [mt EXCEPT !.pc["rcv"] = IF conn.tn3270e_mode THEN "load" ELSE "build",
                       !.tag["rcv"] = [kind |-> "query", aid_name |-> "",
                                       k |-> mt.k, q |-> mt.q],
                       !.q = @ + 1]
   /\ UNCHANGED <<screen, conn, terminal_cursor_pos, rx_status, last_op,
                  n_records, n_keys, n_aids, n_telnet, n_chunks>>

\* build_tn3270e_header: seq = self._sequence_number.  The tag notes the
\* Query Replies begun by then.
HeaderLoad(t) ==
   /\ mt.pc[t] = "load"
   /\ mt' = [mt EXCEPT !.pc[t] = "incr_load", !.seq[t] = conn.sequence_number,
                       !.tag[t].q = mt.q]
   /\ UNCHANGED <<screen, conn, terminal_cursor_pos, rx_status, last_op,
                  n_records, n_keys, n_aids, n_telnet, n_chunks>>

\* build_tn3270e_header: the read of self._sequence_number in the increment.
HeaderIncrLoad(t) ==
   /\ mt.pc[t] = "incr_load"
   /\ mt' = [mt EXCEPT !.pc[t] = "incr_store", !.tmp[t] = conn.sequence_number]
   /\ UNCHANGED <<screen, conn, terminal_cursor_pos, rx_status, last_op,
                  n_records, n_keys, n_aids, n_telnet, n_chunks>>

\* build_tn3270e_header: the store of the increment.
HeaderIncrStore(t) ==
   /\ mt.pc[t] = "incr_store"
   /\ conn' = [conn EXCEPT !.sequence_number = sequence_number_next(mt.tmp[t])]
   /\ mt' = [mt EXCEPT !.pc[t] = "build"]
   /\ UNCHANGED <<screen, terminal_cursor_pos, rx_status, last_op,
                  n_records, n_keys, n_aids, n_telnet, n_chunks>>

\* The record a thread builds around the header of the number it read.
thread_record(t) ==
   LET c == [Enter(conn, TRUE) EXCEPT !.sequence_number = mt.seq[t]]
   IN  IF mt.tag[t].kind = "aid"
       THEN send_aid(screen, c, terminal_cursor_pos, mt.tag[t].aid_name).c.out[1].data
       ELSE send_query_reply(c).out[1].data

\* The rest of parts is appended after the header.
BuildRecord(t) ==
   /\ mt.pc[t] = "build"
   /\ mt' = [mt EXCEPT !.pc[t] = "acquire", !.data[t] = thread_record(t)]
   /\ UNCHANGED <<screen, conn, terminal_cursor_pos, rx_status, last_op,
                  n_records, n_keys, n_aids, n_telnet, n_chunks>>

\* send(): with self._lock
Acquire(t) ==
   /\ mt.pc[t] = "acquire"
   /\ mt.lock = "free"
   /\ mt' = [mt EXCEPT !.pc[t] = "sendall", !.lock = t]
   /\ UNCHANGED <<screen, conn, terminal_cursor_pos, rx_status, last_op,
                  n_records, n_keys, n_aids, n_telnet, n_chunks>>

\* send(): socket.sendall(data), and the lock is released.
Sendall(t) ==
   /\ mt.pc[t] = "sendall"
   /\ mt.lock = t
   /\ conn' = send(Enter(conn, TRUE), mt.data[t])
   /\ mt' = [mt EXCEPT !.pc[t] = IF t = "app" THEN "clear" ELSE "idle",
                       !.lock = "free",
                       !.wire = Append(@, [data |-> mt.data[t], tag |-> mt.tag[t]])]
   /\ last_op' = [op |-> "sendall", arg |-> t]
   /\ UNCHANGED <<screen, terminal_cursor_pos, rx_status,
                  n_records, n_keys, n_aids, n_telnet, n_chunks>>

\* _send_aid: self.screen.clear_modified_flags()
ClearFlags ==
   /\ mt.pc["app"] = "clear"
   /\ screen' = clear_modified_flags(screen)
   /\ mt' = [mt EXCEPT !.pc["app"] = "idle"]
   /\ UNCHANGED <<conn, terminal_cursor_pos, rx_status, last_op,
                  n_records, n_keys, n_aids, n_telnet, n_chunks>>

NextSend ==
   \/ \E aid_name \in AidNames : StartAid(aid_name)
   \/ StartQueryReply
   \/ \E t \in Threads : HeaderLoad(t)
   \/ \E t \in Threads : HeaderIncrLoad(t)
   \/ \E t \in Threads : HeaderIncrStore(t)
   \/ \E t \in Threads : BuildRecord(t)
   \/ \E t \in Threads : Acquire(t)
   \/ \E t \in Threads : Sendall(t)
   \/ ClearFlags

SpecSend == InitSend /\ [][NextSend]_vars

(***************************************************************************)
(* The codec specification: the buffer-address codec of orders.py and the  *)
(* character codec of ebcdic.py applied to every input of their domains.   *)
(* last_op holds the input (arg), its encoding (code), the decoding of     *)
(* that (back) and the encoding of that again (again).                     *)
(***************************************************************************)
\* The addresses two 6-bit halves can carry, and printable ASCII.
AddressSpace == 64 * 64
PrintableAscii == 32..126

CodecInput(op, arg) ==
   [op |-> op, arg |-> arg, code |-> <<>>, back |-> 0 - 1, again |-> <<>>]

InitCodec ==
   /\ screen = ScreenBuffer
   /\ conn = TN3270Connection
   /\ terminal_cursor_pos = 0
   /\ rx_status = "idle"
   /\ last_op \in { CodecInput("address", p) : p \in 0..(AddressSpace - 1) }
                   \cup { CodecInput("char", c) : c \in PrintableAscii }
   /\ n_records = 0
   /\ n_keys = 0
   /\ n_aids = 0
   /\ n_telnet = 0
   /\ n_chunks = 0
   /\ mt = MtIdle

CodecRest == <<screen, conn, terminal_cursor_pos, rx_status, n_records, n_keys,
               n_aids, n_telnet, n_chunks, mt>>

EncodeAddress ==
   /\ last_op.op = "address"
   /\ last_op' = [last_op EXCEPT !.op = "encoded_address",
                                 !.code = encode_buffer_address(last_op.arg)]
   /\ UNCHANGED CodecRest

DecodeAddress ==
   /\ last_op.op = "encoded_address"
   /\ last_op' = [last_op EXCEPT !.op = "decoded_address",
                     !.back = decode_buffer_address(last_op.code[1], last_op.code[2])]
   /\ UNCHANGED CodecRest

ReencodeAddress ==
   /\ last_op.op = "decoded_address"
   /\ last_op' = [last_op EXCEPT !.op = "reencoded_address",
                                 !.again = encode_buffer_address(last_op.back)]
   /\ UNCHANGED CodecRest

AsciiToEbcdic ==
   /\ last_op.op = "char"
   /\ last_op' = [last_op EXCEPT !.op = "encoded_char",
                                 !.code = ascii_to_ebcdic(<<last_op.arg>>)]
   /\ UNCHANGED CodecRest

EbcdicToAscii ==
   /\ last_op.op = "encoded_char"
   /\ last_op' = [last_op EXCEPT !.op = "decoded_char",
                                 !.back = ebcdic_to_ascii(last_op.code[1])]
   /\ UNCHANGED CodecRest

NextCodec ==
   \/ EncodeAddress
   \/ DecodeAddress
   \/ ReencodeAddress
   \/ AsciiToEbcdic
   \/ EbcdicToAscii

SpecCodec == InitCodec /\ [][NextCodec]_vars

(***************************************************************************)
(* The two threads on the screen and the observers.  MainWindow assigns    *)
(* its methods to connection.on_data, on_connect, on_disconnect and        *)
(* on_error, so each runs on the thread that makes the call: the           *)
(* application (GUI) thread runs _connect, _disconnect and _send_aid, the  *)
(* receive thread runs _receive_loop, and with it on_data -> process_data. *)
(* Nothing guards the screen.  mt holds, for this specification, where     *)
(* each thread stands (pc), the record the receive thread is processing,   *)
(* the AID and the parts the application thread has built, what            *)
(* is_unformatted returned, the reads the AID builder made of the screen   *)
(* (each with ver, the number of steps the receive thread has made on the  *)
(* screen, and whole, whether no record was in progress), and calls, the   *)
(* observer calls made so far with the thread of each.                     *)
(***************************************************************************)
ThreadsIdle ==
   [pc |-> [t \in Threads |-> "idle"], record |-> <<>>, aid_name |-> "",
    unformatted |-> FALSE, data |-> <<>>, reads |-> <<>>, ver |-> 0,
    calls |-> {}]

\* The records of this specification: Erase/Write with a modified field,
\* Erase/Write of plain text, Write of one character at address 3.
ThreadRecords ==
   { <<ERASE_WRITE, 195, SF, 193, 194, IAC, EOR>>,
     <<ERASE_WRITE, 195, 193, IAC, EOR>>,
     <<WRITE, 195, SBA, 0, 3, 193, IAC, EOR>> }

\* The observer calls of the handler that leaves the connection as c, made
\* on thread t.
Calls(c, t) == { <<c.cb[i][1], t>> : i \in 1..Len(c.cb) }

\* A read of the screen by the AID builder.
ScreenRead(step) ==
   [step |-> step, ver |-> mt.ver, whole |-> mt.pc["rcv"] = "idle"]

InitThreads ==
   /\ screen = ScreenBuffer
   /\ conn = TN3270Connection
   /\ terminal_cursor_pos = 0
   /\ rx_status = "idle"
   /\ last_op = [op |-> "init", arg |-> ""]
   /\ n_records = 0
   /\ n_keys = 0
   /\ n_aids = 0
   /\ n_telnet = 0
   /\ n_chunks = 0
   /\ mt = ThreadsIdle

\* MainWindow._connect on the application thread: connection.connect()
\* calls on_connect and starts the receive thread.
AppConnect ==
   /\ ~conn.connected
   /\ mt.pc["app"] = "idle"
   /\ \E c \in { connect(Enter(conn, TRUE)) } :
         /\ conn' = c
         /\ mt' = [mt EXCEPT !.calls = @ \cup Calls(c, "app")]
   /\ last_op' = [op |-> "connect", arg |-> "app"]
   /\ UNCHANGED <<screen, terminal_cursor_pos, rx_status,
                  n_records, n_keys, n_aids, n_telnet, n_chunks>>

\* MainWindow._disconnect on the application thread.
AppDisconnect ==
   /\ conn.connected
   /\ mt.pc["app"] = "idle"
   /\ \E c \in { disconnect(Enter(conn, TRUE)) } :
         /\ conn' = c
         /\ mt' = [mt EXCEPT !.calls = @ \cup Calls(c, "app")]
   /\ last_op' = [op |-> "disconnect", arg |-> "app"]
   /\ UNCHANGED <<screen, terminal_cursor_pos, rx_status,
                  n_records, n_keys, n_aids, n_telnet, n_chunks>>

\* _send_aid begins on the application thread: the AID byte and the cursor
\* address are put into parts.
AidBegin(aid_name) ==
   /\ mt.pc["app"] = "idle"
   /\ n_aids < MaxAids
   /\ conn.connected
   /\ ~conn.tn3270e_mode
   /\ mt' = [mt EXCEPT
               !.pc["app"] = IF aid_name \in short_read_aids
                             THEN "send" ELSE "is_unformatted",
               !.aid_name = aid_name,
               !.data = <<AIDS[aid_name]>> \o encode_buffer_address(terminal_cursor_pos),
               !.reads = <<>>]
   /\ n_aids' = n_aids + 1
   /\ last_op' = [op |-> "aid_begin", arg |-> aid_name]
   /\ UNCHANGED <<screen, conn, terminal_cursor_pos, rx_status,
                  n_records, n_keys, n_telnet, n_chunks>>

\* _send_aid: if self.screen.is_unformatted()
AidIsUnformatted ==
   /\ mt.pc["app"] = "is_unformatted"
   /\ mt' = [mt EXCEPT !.pc["app"] = "fields",
                       !.unformatted = is_unformatted(screen),
                       !.reads = Append(@, ScreenRead("is_unformatted"))]
   /\ last_op' = [op |-> "aid_is_unformatted", arg |-> mt.aid_name]
   /\ UNCHANGED <<screen, conn, terminal_cursor_pos, rx_status,
                  n_records, n_keys, n_aids, n_telnet, n_chunks>>

\* _send_aid: get_unformatted_data() or the loop over get_modified_fields().
AidReadFields ==
   /\ mt.pc["app"] = "fields"
   /\ mt' = [mt EXCEPT
               !.pc["app"] = "send",
               !.data = @ \o (IF mt.unformatted
                              THEN ascii_to_ebcdic(get_unformatted_data(screen))
                              ELSE field_parts(get_modified_fields(screen))),
               !.reads = Append(@, ScreenRead("fields"))]
   /\ last_op' = [op |-> "aid_fields", arg |-> mt.aid_name]
   /\ UNCHANGED <<screen, conn, terminal_cursor_pos, rx_status,
                  n_records, n_keys, n_aids, n_telnet, n_chunks>>

\* _send_aid: self.connection.send(bytes(parts)); a failing sendall makes
\* send() call _handle_error and disconnect() on the application thread.
AidSend(sock_ok) ==
   /\ mt.pc["app"] = "send"
   /\ \E c \in { send(Enter(conn, sock_ok), mt.data \o <<IAC, EOR>>) } :
         /\ conn' = c
         /\ mt' = [mt EXCEPT !.pc["app"] = "clear",
                             !.calls = @ \cup Calls(c, "app")]
   /\ last_op' = [op |-> "aid_send", arg |-> mt.aid_name]
   /\ UNCHANGED <<screen, terminal_cursor_pos, rx_status,
                  n_records, n_keys, n_aids, n_telnet, n_chunks>>

\* _send_aid: self.screen.clear_modified_flags()
AidClearFlags ==
   /\ mt.pc["app"] = "clear"
   /\ screen' = clear_modified_flags(screen)
   /\ mt' = [mt EXCEPT !.pc["app"] = "idle",
                       !.reads = Append(@, ScreenRead("clear_modified_flags"))]
   /\ last_op' = [op |-> "aid_clear", arg |-> mt.aid_name]
   /\ UNCHANGED <<conn, terminal_cursor_pos, rx_status,
                  n_records, n_keys, n_aids, n_telnet, n_chunks>>

\* The receive thread has framed a record: on_data -> _on_data ->
\* process_data up to the command; an erase command runs self.clear().
RecordCommand(record) ==
   /\ mt.pc["rcv"] = "idle"
   /\ conn.connected
   /\ n_records < MaxRecords
   /\ screen' = IF record[1] \in ERASE_COMMANDS THEN clear(screen) ELSE screen
   /\ \E c \in { [Enter(conn, TRUE) EXCEPT !.cb = Append(@, <<"on_data", record>>)] } :
         /\ conn' = c
         /\ mt' = [mt EXCEPT !.pc["rcv"] = "orders", !.record = record,
                             !.ver = @ + 1,
                             !.calls = @ \cup Calls(c, "rcv")]
   /\ n_records' = n_records + 1
   /\ last_op' = [op |-> "record_command", arg |-> ""]
   /\ UNCHANGED <<terminal_cursor_pos, rx_status, n_keys, n_aids, n_telnet, n_chunks>>

\* process_data goes on: _process_orders after the WCC, then _on_data sets
\* the terminal's cursor.
RecordOrders ==
   /\ mt.pc["rcv"] = "orders"
   /\ \E r \in { process_orders(screen, RecordBody(mt.record), 2, 0) } :
         /\ screen' = r.s
         /\ terminal_cursor_pos' = r.s.cursor_pos % (ROWS * COLS)
   /\ mt' = [mt EXCEPT !.pc["rcv"] = "idle", !.record = <<>>, !.ver = @ + 1]
   /\ last_op' = [op |-> "record_orders", arg |-> ""]
   /\ UNCHANGED <<conn, rx_status, n_records, n_keys, n_aids, n_telnet, n_chunks>>

NextThreads ==
   \/ AppConnect
   \/ AppDisconnect
   \/ \E aid_name \in AidNames : AidBegin(aid_name)
   \/ AidIsUnformatted
   \/ AidReadFields
   \/ \E sock_ok \in BOOLEAN : AidSend(sock_ok)
   \/ AidClearFlags
   \/ \E record \in ThreadRecords : RecordCommand(record)
   \/ RecordOrders

SpecThreads == InitThreads /\ [][NextThreads]_vars

(***************************************************************************)
(* The TN3270E negotiation.  After connect the peer sends IAC DO TN3270E   *)
(* and the subnegotiations SEND DEVICE-TYPE, DEVICE-TYPE IS and FUNCTIONS  *)
(* IS; recv returns the stream in segments of any length and every send    *)
(* succeeds.  mt holds, for this specification, the bytes the peer has     *)
(* still to deliver (stream), the number delivered, the offsets at which   *)
(* the four peer messages end (ends), and what the client has sent, each   *)
(* with the number of bytes delivered by then.                             *)
(***************************************************************************)
DeviceNames == { <<73>>, <<73, 66, 77>> }
FunctionLists == { <<>>, <<0, 4>>, <<0, 4, 5>> }

PeerMessages(name, funcs) ==
   << <<IAC, DO, OPT_TN3270E>>,
      <<IAC, SB, OPT_TN3270E, TN3270E_SEND, TN3270E_DEVICE_TYPE, IAC, SE>>,
      <<IAC, SB, OPT_TN3270E, TN3270E_DEVICE_TYPE, TN3270E_IS>> \o name \o <<IAC, SE>>,
      <<IAC, SB, OPT_TN3270E, TN3270E_FUNCTIONS, TN3270E_IS>> \o funcs \o <<IAC, SE>> >>

InitNegotiate ==
   /\ screen = ScreenBuffer
   /\ conn = [connect(TN3270Connection) EXCEPT !.cb = <<>>]
   /\ terminal_cursor_pos = 0
   /\ rx_status = "idle"
   /\ last_op = [op |-> "connect", arg |-> ""]
   /\ n_records = 0
   /\ n_keys = 0
   /\ n_aids = 0
   /\ n_telnet = 0
   /\ n_chunks = 0
   /\ \E name \in DeviceNames, funcs \in FunctionLists :
         \E m \in { PeerMessages(name, funcs) } :
            mt = [stream |-> m[1] \o m[2] \o m[3] \o m[4],
                  delivered |-> 0,
                  ends |-> << Len(m[1]), Len(m[1]) + Len(m[2]),
                              Len(m[1]) + Len(m[2]) + Len(m[3]),
                              Len(m[1]) + Len(m[2]) + Len(m[3]) + Len(m[4]) >>,
                  sent |-> <<>>]

\* One turn of _receive_loop: recv returns the next n bytes of the stream.
NegotiateReceive(n) ==
   /\ conn.running
   /\ n <= Len(mt.stream)
   /\ \E r \in { receive(Enter(conn, TRUE), screen, terminal_cursor_pos,
                          SubSeq(mt.stream, 1, n)) } :
         /\ conn' = r.c
         /\ screen' = r.s
         /\ terminal_cursor_pos' = r.cursor_pos
         /\ mt' = [mt EXCEPT
                     !.stream = Drop(@, n),
                     !.delivered = @ + n,
                     !.sent = @ \o [k \in 1..Len(r.c.out) |->
                                      [data |-> r.c.out[k].data,
                                       at |-> mt.delivered + n]]]
   /\ last_op' = [op |-> "receive", arg |-> "ok"]
   /\ UNCHANGED <<rx_status, n_records, n_keys, n_aids, n_telnet, n_chunks>>

NextNegotiate == \E n \in 1..Len(mt.stream) : NegotiateReceive(n)

\* recv returns whatever has arrived, and the loop runs while the
\* connection is up.
SpecNegotiate ==
   InitNegotiate /\ [][NextNegotiate]_vars /\ WF_vars(NextNegotiate)

(***************************************************************************)
(* Receive tasks over a disconnect and a new connect.  connect() starts a  *)
(* thread on _receive_loop and disconnect() closes the socket without      *)
(* waiting for the thread, so the thread of an earlier connection can      *)
(* still be anywhere in its loop.  mt holds, for this specification, the   *)
(* number of connects so far (the socket now in self.socket is the one of  *)
(* connect number gen), each task's position in _receive_loop with the     *)
(* socket it called recv on and the data recv returned, and what a task    *)
(* of an earlier connect did to a later connection (late).                 *)
(***************************************************************************)
MaxConnects == 2

InitReconnect ==
   /\ screen = ScreenBuffer
   /\ conn = TN3270Connection
   /\ terminal_cursor_pos = 0
   /\ rx_status = "idle"
   /\ last_op = [op |-> "init", arg |-> ""]
   /\ n_records = 0
   /\ n_keys = 0
   /\ n_aids = 0
   /\ n_telnet = 0
   /\ n_chunks = 0
   /\ mt = [gen |-> 0,
            tasks |-> [t \in 1..MaxConnects |-> [pc |-> "none", sock |-> 0, data |-> <<>>]],
            late |-> {}]

\* MainWindow._connect: connect() opens a socket and starts a receive task.
UserConnect ==
   /\ ~conn.connected
   /\ mt.gen < MaxConnects
   /\ conn' = connect(Enter(conn, TRUE))
   /\ mt' = [mt EXCEPT !.gen = @ + 1,
                       !.tasks[mt.gen + 1] = [pc |-> "loop", sock |-> 0, data |-> <<>>]]
   /\ last_op' = [op |-> "connect", arg |-> ""]
   /\ UNCHANGED <<screen, terminal_cursor_pos, rx_status, n_records, n_keys, n_aids,
                  n_telnet, n_chunks>>

\* MainWindow._disconnect: disconnect() returns with the task still alive.
UserDisconnect ==
   /\ conn.connected
   /\ conn' = disconnect(Enter(conn, TRUE))
   /\ screen' = clear(screen)
   /\ last_op' = [op |-> "disconnect", arg |-> ""]
   /\ UNCHANGED <<terminal_cursor_pos, rx_status, n_records, n_keys, n_aids,
                  n_telnet, n_chunks, mt>>

\* while self._running and self.socket: ... self.socket.recv is called on
\* the socket that is in self.socket now.
LoopTest(t) ==
   /\ mt.tasks[t].pc = "loop"
   /\ mt' = [mt EXCEPT !.tasks[t] =
                IF conn.running /\ conn.socket
                THEN [pc |-> "recv", sock |-> mt.gen, data |-> <<>>]
                ELSE [pc |-> "done", sock |-> 0, data |-> <<>>]]
   /\ last_op' = [op |-> "loop", arg |-> ""]
   /\ UNCHANGED <<screen, conn, terminal_cursor_pos, rx_status, n_records, n_keys,
                  n_aids, n_telnet, n_chunks>>

\* recv returns: data from an open socket, b'' when the peer or a shutdown
\* ended the stream, OSError on a closed socket.  b'' leads to disconnect(),
\* OSError to _handle_error and disconnect() if _running is set.
LoopRecv(t, outcome, data) ==
   /\ mt.tasks[t].pc = "recv"
   /\ LET open == conn.socket /\ mt.tasks[t].sock = mt.gen
          later == t < mt.gen /\ conn.running
      IN  /\ outcome = "data" => (open /\ n_chunks < MaxChunks)
          /\ outcome = "oserror" => ~open
          /\ conn' = CASE outcome = "data" -> conn
                       [] outcome = "eof" -> disconnect(Enter(conn, TRUE))
                       [] OTHER -> IF conn.running
                                   THEN disconnect(handle_error(Enter(conn, TRUE)))
                                   ELSE conn
          /\ mt' = [mt EXCEPT
                      !.tasks[t] = IF outcome = "data"
                                   THEN [pc |-> "got", sock |-> @.sock, data |-> data]
                                   ELSE [pc |-> "done", sock |-> 0, data |-> <<>>],
                      !.late = IF ~later \/ outcome = "data" THEN @
                               ELSE IF outcome = "eof" THEN @ \cup {"disconnect"}
                               ELSE @ \cup {"error", "disconnect"}]
   /\ n_chunks' = IF outcome = "data" THEN n_chunks + 1 ELSE n_chunks
   /\ last_op' = [op |-> "recv", arg |-> outcome]
   /\ UNCHANGED <<screen, terminal_cursor_pos, rx_status, n_records, n_keys, n_aids,
                  n_telnet>>

\* self._buffer += data; self._process_buffer()
LoopAppend(t) ==
   /\ mt.tasks[t].pc = "got"
   /\ \E r \in { receive(Enter(conn, TRUE), screen, terminal_cursor_pos,
                          mt.tasks[t].data) } :
         /\ conn' = r.c
         /\ screen' = r.s
         /\ terminal_cursor_pos' = r.cursor_pos
   /\ mt' = [mt EXCEPT !.tasks[t] = [pc |-> "loop", sock |-> 0, data |-> <<>>],
                       !.late = IF t < mt.gen THEN @ \cup {"append"} ELSE @]
   /\ last_op' = [op |-> "append", arg |-> ""]
   /\ UNCHANGED <<rx_status, n_records, n_keys, n_aids, n_telnet, n_chunks>>

NextReconnect ==
   \/ UserConnect
   \/ UserDisconnect
   \/ \E t \in 1..MaxConnects : LoopTest(t)
   \/ \E t \in 1..MaxConnects, outcome \in {"data", "eof", "oserror"},
         data \in { <<IAC, DO>>, <<OPT_TN3270E>> } :
         LoopRecv(t, outcome, data)
   \/ \E t \in 1..MaxConnects : LoopAppend(t)

SpecReconnect == InitReconnect /\ [][NextReconnect]_vars


(***************************************************************************)
(* The framer and the segments.  The peer's byte stream is fixed in the    *)
(* initial state; recv returns it in segments of any length.  mt holds,    *)
(* for this specification, the bytes still to deliver, and what the        *)
(* connection has done so far: the data sent, the commands and             *)
(* subnegotiations handled, and the observer calls; whole holds the same   *)
(* for the stream received as one segment.                                 *)
(***************************************************************************)
StreamUnits ==
   { <<>>,
     <<IAC, DO, OPT_TN3270E>>,
     <<IAC, DONT, OPT_TN3270E>>,
     <<IAC, SB, OPT_TN3270E, TN3270E_SEND, TN3270E_DEVICE_TYPE, IAC, SE>>,
     QueryRecord,
     <<0, 0, 0, 0, 0>> \o QueryRecord,
     <<ERASE_WRITE, 195, 193, IAC, EOR>>,
     <<ERASE_WRITE, 195, SBA, 193, 64, 193, IAC, EOR>>,
     <<IAC, IAC>>,
     <<IAC, EOR>>,
     <<IAC, 241>> }

\* What one turn of _receive_loop did, without the bytes of the records.
Done(c) ==
   [sent |-> [k \in 1..Len(c.out) |-> c.out[k].data],
    handled |-> [k \in 1..Len(c.framed) |-> [kind |-> c.framed[k].kind,
                                              data |-> c.framed[k].data]],
    calls |-> c.cb]

InitStream ==
   /\ screen = ScreenBuffer
   /\ conn = Enter(connect(TN3270Connection), TRUE)
   /\ terminal_cursor_pos = 0
   /\ rx_status = "idle"
   /\ last_op = [op |-> "connect", arg |-> ""]
   /\ n_records = 0
   /\ n_keys = 0
   /\ n_aids = 0
   /\ n_telnet = 0
   /\ n_chunks = 0
   /\ \E u1 \in StreamUnits \ {<<>>}, u2, u3 \in StreamUnits :
         \E r \in { receive(Enter(connect(TN3270Connection), TRUE), ScreenBuffer, 0,
                             u1 \o u2 \o u3) } :
            mt = [stream |-> u1 \o u2 \o u3,
                  done |-> [sent |-> <<>>, handled |-> <<>>, calls |-> <<>>],
                  whole |-> Done(r.c),
                  whole_screen |-> r.s.cells]

\* One turn of _receive_loop: recv returns the next n bytes of the stream.
StreamReceive(n) ==
   /\ conn.running
   /\ rx_status = "idle"
   /\ n <= Len(mt.stream)
   /\ \E r \in { receive(conn, screen, terminal_cursor_pos, SubSeq(mt.stream, 1, n)) } :
         /\ conn' = Enter(r.c, TRUE)
         /\ screen' = r.s
         /\ terminal_cursor_pos' = r.cursor_pos
         /\ rx_status' = IF r.status = "hang" THEN "hung" ELSE "idle"
         /\ last_op' = [op |-> "receive", arg |-> r.status]
         /\ mt' = [mt EXCEPT
                     !.stream = Drop(@, n),
                     !.done = [sent |-> @.sent \o Done(r.c).sent,
                               handled |-> @.handled \o Done(r.c).handled,
                               calls |-> @.calls \o Done(r.c).calls]]
   /\ UNCHANGED <<n_records, n_keys, n_aids, n_telnet, n_chunks>>

NextStream == \E n \in 1..Len(mt.stream) : StreamReceive(n)

SpecStream == InitStream /\ [][NextStream]_vars




(***************************************************************************)
(* Claims about the parser, under SpecParse.                               *)
(***************************************************************************)

\* C1: for every inbound record, including records whose SBA, RA or EUA
\* operand decodes to an address beyond the screen, process_data completes
\* without raising, so that no record surfaces as an error in the receive
\* task (on_error, disconnect).
C1_ProcessDataCompletes ==
   last_op.op = "data" =>
      /\ last_op.arg = "ok"
      /\ conn.connected
      /\ \A k \in 1..Len(conn.cb) : conn.cb[k][1] \notin {"on_error", "on_disconnect"}

\* C2: in every reachable state of the screen, after any sequence of
\* processed records, cursor_pos is a cell of the screen.
C2_CursorPosInRange ==
   screen.cursor_pos \in 0..(SIZE - 1)

(***************************************************************************)
(* Claims about the sequence numbers of outbound records, under SpecSend.  *)
(***************************************************************************)

\* The sequence number in the TN3270E header of a record on the wire.
WireSeq(e) == At(e.data, 3) * 256 + At(e.data, 4)

\* C3: when send is called concurrently from several threads on a TN3270E
\* connection, the records on the wire carry pairwise distinct sequence
\* numbers, and the numbers increase strictly (modulo 2^16) in the order
\* the records appear on the wire.
C3_WireSequenceIncreasing ==
   /\ \A i, j \in 1..Len(mt.wire) :
         i < j => WireSeq(mt.wire[i]) # WireSeq(mt.wire[j])
   /\ \A i \in 1..(Len(mt.wire) - 1) :
         LET d == (WireSeq(mt.wire[i + 1]) - WireSeq(mt.wire[i])) % SeqModulus
         IN  0 < d /\ d < SeqModulus \div 2

\* C4, as stated: for every sequence of inbound records and AID sends after
\* a connect, the k-th AID record sent in TN3270E mode carries the sequence
\* number k mod 2^16.
C4_AidSequenceIsCount ==
   \A i \in 1..Len(mt.wire) :
      mt.wire[i].tag.kind = "aid"
         => WireSeq(mt.wire[i]) = mt.wire[i].tag.k % SeqModulus

\* C4, amended: the k-th AID record sent in TN3270E mode after a connect
\* carries the sequence number k mod 2^16 when no Query Reply was begun on
\* the connection before the header of that AID was built.
C4_AidSequenceIsCountNoQuery ==
   \A i \in 1..Len(mt.wire) :
      (mt.wire[i].tag.kind = "aid" /\ mt.wire[i].tag.q = 0)
         => WireSeq(mt.wire[i]) = mt.wire[i].tag.k % SeqModulus

\* AID number 2^16, with no Query Reply before it, is on the wire with
\* the number 0, after AID number 2^16 - 1.
C4_Witness ==
   /\ Len(mt.wire) >= 2
   /\ \E i \in 1..Len(mt.wire) :
         /\ mt.wire[i].tag.kind = "aid"
         /\ mt.wire[i].tag.q = 0
         /\ mt.wire[i].tag.k = SeqModulus
         /\ WireSeq(mt.wire[i]) = 0

(***************************************************************************)
(* Claims about the keyboard and the AID records, under Spec.              *)
(***************************************************************************)

\* The step is _send_aid on a connected connection.
AidStep == n_aids' = n_aids + 1 /\ conn.connected

\* The text of the field that starts at start_pos: the characters after the
\* field-start cell up to the next field-start cell, in circular order,
\* without its trailing spaces.
C5_FieldText(s, start_pos) ==
   LET first == (start_pos + 1) % SIZE
       stops == { d \in 0..(SIZE - 1) : s.cells[(first + d) % SIZE].is_field_start }
       n == IF stops = {} THEN SIZE
            ELSE CHOOSE d \in stops : \A e \in stops : d <= e
       text == [k \in 1..n |-> s.cells[(first + k - 1) % SIZE].char]
       kept == { k \in 1..n : text[k] # 32 }
       m == IF kept = {} THEN 0 ELSE CHOOSE k \in kept : \A j \in kept : j <= k
   IN  SubSeq(text, 1, m)

\* The field data of a formatted screen from field i on.
RECURSIVE C5_FieldData(_, _)
C5_FieldData(s, i) ==
   IF i > Len(s.fields) THEN <<>>
   ELSE LET f == s.fields[i]
            text == C5_FieldText(s, f.start_pos)
        IN  (IF f.is_modified /\ ~f.is_protected /\ text # <<>>
             THEN <<17>> \o encode_buffer_address((f.start_pos + 1) % SIZE)
                     \o ascii_to_ebcdic(text)
             ELSE <<>>) \o C5_FieldData(s, i + 1)

\* The text of an unformatted screen, right-trimmed.
C5_ScreenText(s) ==
   LET kept == { k \in 1..SIZE : s.cells[k - 1].char # 32 }
       m == IF kept = {} THEN 0 ELSE CHOOSE k \in kept : \A j \in kept : j <= k
   IN  [k \in 1..m |-> s.cells[k - 1].char]

\* The record C5 describes for an AID sent from screen s, connection c and
\* the terminal's cursor position.
C5_Record(s, c, cursor_pos, aid_name) ==
   (IF c.tn3270e_mode
    THEN <<0, 0, 0, c.sequence_number \div 256, c.sequence_number % 256>>
    ELSE <<>>)
   \o <<AIDS[aid_name]>>
   \o <<ADDR_TABLE[(cursor_pos \div 64) + 1], ADDR_TABLE[(cursor_pos % 64) + 1]>>
   \o (IF aid_name \in {"PA1", "PA2", "PA3", "CLEAR"} THEN <<>>
       ELSE IF s.fields = <<>> THEN ascii_to_ebcdic(C5_ScreenText(s))
       ELSE C5_FieldData(s, 1))
   \o <<255, 239>>

\* C5: the record built for an AID is exactly the TN3270E header (only in
\* TN3270E mode), the AID byte, the 12-bit encoded cursor address, the field
\* data, then IAC EOR; the field data is empty for a short-read AID, the
\* EBCDIC of the right-trimmed screen text on an unformatted screen, and on
\* a formatted screen, for each unprotected field with MDT set and
\* non-blank content, SBA, the encoded address after the field start and
\* the EBCDIC of the trimmed content, and nothing for the other fields.
C5_AidRecordLayout ==
   [][AidStep =>
         /\ Len(conn'.out) = 1
         /\ conn'.out[1].data =
               C5_Record(screen, conn, terminal_cursor_pos, last_op'.arg)]_vars

\* An ENTER was sent in TN3270E mode from a formatted screen and carried
\* the data of a field.
C5_Witness ==
   /\ last_op = [op |-> "aid", arg |-> "ENTER"]
   /\ conn.tn3270e_mode
   /\ screen.fields # <<>>
   /\ Len(conn.out) = 1
   /\ Len(conn.out[1].data) >= 14

\* The start of the field that owns cell pos: the nearest field-start cell
\* preceding pos in circular order.
C6_OwnerStart(s, pos) ==
   LET back == { d \in 1..SIZE : s.cells[(pos - d + SIZE) % SIZE].is_field_start }
       d0 == CHOOSE d \in back : \A e \in back : d <= e
   IN  (pos - d0 + SIZE) % SIZE

NoMDT(s) == \A i \in 1..Len(s.fields) : ~s.fields[i].is_modified

\* C7: after an AID send every field's MDT is false and
\* get_modified_fields() is empty, until the user types or an inbound SF or
\* SFE with the MDT bit sets one again.
C7_MDTClearedByAid ==
   [][/\ AidStep => (NoMDT(screen') /\ get_modified_fields(screen') = <<>>)
      /\ (NoMDT(screen) /\ ~NoMDT(screen')) =>
            \/ last_op'.op = "type"
            \/ /\ last_op'.op = "data"
               /\ \E i \in 1..Len(screen'.fields) :
                     /\ screen'.fields[i].is_modified
                     /\ screen'.fields[i].attr_byte % 2 = 1]_vars

\* An AID was sent from a screen of two fields or more and carried the
\* data of a modified field; no field is modified afterwards.
C7_Witness ==
   /\ last_op.op = "aid"
   /\ Len(screen.fields) >= 2
   /\ NoMDT(screen)
   /\ Len(conn.out) = 1
   /\ ~conn.tn3270e_mode
   /\ Len(conn.out[1].data) >= 9

(***************************************************************************)
(* Claims about the connection, under SpecConn.  conn.framed, conn.out and *)
(* conn.cb tell what the last handler cut off the buffer, wrote to the     *)
(* socket and called back.                                                 *)
(***************************************************************************)

\* What the handler wrote and called back for the i-th unit it framed.
UnitOut(c, i) ==
   SubSeq(c.out, c.framed[i].n_out + 1,
          IF i < Len(c.framed) THEN c.framed[i + 1].n_out ELSE Len(c.out))

UnitCb(c, i) ==
   SubSeq(c.cb, c.framed[i].n_cb + 1,
          IF i < Len(c.framed) THEN c.framed[i + 1].n_cb ELSE Len(c.cb))

\* The record, framed in this mode, asks for a Query Reply: after the
\* TN3270E header (five bytes, the first 0x00, in TN3270E mode) it begins
\* with 0xF3 and the byte three past 0xF3 is 0x01.
C8_IsQuery(mode, record) ==
   LET payload == SubSeq(record, 1, Len(record) - 2)
       skip == IF mode /\ Len(payload) >= 5 /\ payload[1] = 0 THEN 5 ELSE 0
   IN  /\ Len(payload) >= skip + 4
       /\ payload[skip + 1] = 243
       /\ payload[skip + 4] = 1

\* The bytes are a Query Reply record: the AID 0x88 after the header.
C8_IsQueryReply(mode, data) ==
   LET skip == IF mode THEN 5 ELSE 0
   IN  Len(data) > skip /\ data[skip + 1] = 136

\* C8: for every framed inbound record: if, after the optional TN3270E
\* header, it begins with 0xF3 and the byte three past 0xF3 is 0x01, the
\* connection sends exactly one Query Reply and does not invoke on_data
\* for that record; every other record is passed to on_data and triggers
\* no Query Reply.
C8_QueryDispatch ==
   \A i \in 1..Len(conn.framed) :
      conn.framed[i].kind = "record" =>
         LET u == conn.framed[i]
             out == UnitOut(conn, i)
             cb == UnitCb(conn, i)
         IN  IF C8_IsQuery(u.tn3270e_mode, u.data)
             THEN /\ Len(out) = 1
                  /\ C8_IsQueryReply(u.tn3270e_mode, out[1].data)
                  /\ \A k \in 1..Len(cb) : cb[k][1] # "on_data"
             ELSE /\ out = <<>>
                  /\ Len(cb) >= 1
                  /\ cb[1] = <<"on_data", u.data>>
                  /\ \A k \in 2..Len(cb) : cb[k][1] # "on_data"

\* One chunk brought a query with its header in TN3270E mode and another
\* record: the first was answered, the second delivered.
C8_Witness ==
   /\ Len(conn.framed) = 2
   /\ conn.framed[1].kind = "record"
   /\ conn.framed[1].tn3270e_mode
   /\ conn.framed[1].data[1] = 0
   /\ C8_IsQuery(TRUE, conn.framed[1].data)
   /\ conn.framed[2].kind = "record"
   /\ ~C8_IsQuery(TRUE, conn.framed[2].data)
   /\ Len(conn.out) = 1

\* The structured fields met when walking body from index pos (counted
\* from 0) by the 2-byte lengths: the pairs of their third and fourth
\* bytes, or "bad" when a length does not fit.
RECURSIVE C9_Walk(_, _, _)
C9_Walk(body, pos, acc) ==
   IF pos = Len(body) THEN acc
   ELSE IF pos + 4 > Len(body) THEN <<"bad">>
   ELSE LET length == body[pos + 1] * 256 + body[pos + 2]
        IN  IF length < 4 \/ pos + length > Len(body) THEN <<"bad">>
            ELSE C9_Walk(body, pos + length,
                         Append(acc, <<body[pos + 3], body[pos + 4]>>))

\* C9: the Query Reply body emitted after the 0x88 AID is a well-formed
\* concatenation of structured fields: walking it by the 2-byte length of
\* each structured field visits exactly the eight replies Summary, Usable
\* Area, Alphanumeric Partitions, Character Sets, Color, Highlighting,
\* Reply Modes, Implicit Partition in that order, each starting with
\* [length, 0x81, subtype], and ends exactly at the terminating IAC EOR.
C9_QueryReplyWellFormed ==
   \A i \in 1..Len(conn.framed) :
      (conn.framed[i].kind = "record"
         /\ C8_IsQuery(conn.framed[i].tn3270e_mode, conn.framed[i].data)) =>
         \A k \in 1..Len(UnitOut(conn, i)) :
            LET data == UnitOut(conn, i)[k].data
                skip == IF conn.framed[i].tn3270e_mode THEN 6 ELSE 1
            IN  /\ Len(data) >= skip + 2
                /\ SubSeq(data, Len(data) - 1, Len(data)) = <<255, 239>>
                /\ C9_Walk(SubSeq(data, skip + 1, Len(data) - 2), 0, <<>>) =
                      << <<129, 128>>, <<129, 129>>, <<129, 132>>, <<129, 133>>,
                         <<129, 134>>, <<129, 135>>, <<129, 136>>, <<129, 166>> >>

\* The reply C10 describes for the command cmd opt.
C10_Reply(cmd, opt) ==
   LET supported == opt \in {0, 24, 25, 40}
   IN  CASE cmd = 253 -> <<255, IF supported THEN 251 ELSE 252, opt>>
         [] cmd = 251 -> <<255, IF supported THEN 253 ELSE 254, opt>>
         [] cmd = 254 -> <<255, 252, opt>>
         [] cmd = 252 -> <<255, 254, opt>>

\* C10: for every received 3-byte Telnet command IAC DO/DONT/WILL/WONT opt
\* the connection sends exactly one 3-byte reply: for DO, WILL opt if opt
\* is one of BINARY, TERMINAL-TYPE, EOR, TN3270E and WONT opt otherwise;
\* for WILL, DO opt if supported and DONT opt otherwise; for DONT, WONT
\* opt; for WONT, DONT opt.
C10_TelnetReplies ==
   \A i \in 1..Len(conn.framed) :
      conn.framed[i].kind = "telnet" =>
         LET out == UnitOut(conn, i)
         IN  /\ Len(out) = 1
             /\ out[1].data = C10_Reply(conn.framed[i].data[2], conn.framed[i].data[3])

\* A command came in two chunks and was answered when its option arrived.
C10_Witness ==
   /\ n_chunks >= 2
   /\ Len(conn.framed) = 1
   /\ conn.framed[1].kind = "telnet"
   /\ conn.framed[1].data = <<255, 253, 40>>
   /\ Len(conn.out) = 1
   /\ conn.out[1].ok
   /\ conn.tn3270e_mode

\* "IBM-3278-2-E"
C11_TerminalType == <<73, 66, 77, 45, 51, 50, 55, 56, 45, 50, 45, 69>>

\* What C11 says is sent for the subnegotiation p (IAC SB opt ... IAC SE).
C11_Responses(p) ==
   IF p[3] = 24 /\ p[4] = 1
   THEN << <<255, 250, 24, 0>> \o C11_TerminalType \o <<255, 240>> >>
   ELSE IF p[3] = 40 /\ Len(p) >= 5 /\ p[4] = 8 /\ p[5] = 2
   THEN << <<255, 250, 40, 2, 7>> \o C11_TerminalType \o <<255, 240>> >>
   ELSE IF p[3] = 40 /\ Len(p) >= 5 /\ p[4] = 2 /\ p[5] = 4
   THEN << <<255, 250, 40, 3, 7, 0, 4, 5, 255, 240>> >>
   ELSE <<>>

\* The subnegotiation is TN3270E FUNCTIONS IS.
C11_IsFunctionsIs(p) == p[3] = 40 /\ Len(p) >= 5 /\ p[4] = 3 /\ p[5] = 4

\* C11: each subnegotiation elicits exactly its specified response:
\* TERMINAL-TYPE SEND is answered with IAC SB TERMINAL-TYPE IS
\* "IBM-3278-2-E" IAC SE; TN3270E SEND DEVICE-TYPE with DEVICE-TYPE REQUEST
\* "IBM-3278-2-E"; TN3270E DEVICE-TYPE IS with FUNCTIONS REQUEST 00 04 05;
\* TN3270E FUNCTIONS IS sends nothing, stores the bytes between IS and the
\* closing IAC SE as the negotiated functions and sets negotiation_complete;
\* any other subnegotiation sends nothing.
C11_SubnegotiationResponses ==
   \A i \in 1..Len(conn.framed) :
      conn.framed[i].kind = "subneg" =>
         LET p == conn.framed[i].data
             out == UnitOut(conn, i)
         IN  /\ [k \in 1..Len(out) |-> out[k].data] = C11_Responses(p)
             /\ (C11_IsFunctionsIs(p) /\ i = Len(conn.framed) /\ conn.connected)
                   => /\ conn.negotiated_functions = SubSeq(p, 6, Len(p) - 2)
                      /\ conn.negotiation_complete

\* FUNCTIONS IS 00 04 was framed: nothing was sent, the functions are
\* stored and the negotiation is complete.
C11_Witness ==
   /\ Len(conn.framed) = 1
   /\ conn.framed[1].kind = "subneg"
   /\ C11_IsFunctionsIs(conn.framed[1].data)
   /\ conn.out = <<>>
   /\ conn.negotiated_functions = <<0, 4>>
   /\ conn.negotiation_complete

\* tn3270e_mode when the handling of the i-th framed unit ended.
C12_ModeAfter(c, i) ==
   IF i < Len(c.framed) THEN c.framed[i + 1].tn3270e_mode ELSE c.tn3270e_mode

\* What C12 says the mode is after the unit u was handled.
C12_Mode(u) ==
   IF u.kind = "telnet" /\ u.data = <<255, 253, 40>> THEN TRUE
   ELSE IF u.kind = "telnet" /\ u.data = <<255, 254, 40>> THEN FALSE
   ELSE IF u.kind = "subneg" /\ u.data[3] = 40 /\ u.data[4] = 6 THEN FALSE
   ELSE u.tn3270e_mode

\* C12: while connected, tn3270e_mode is set to true by a peer DO TN3270E
\* and set to false by a peer DONT TN3270E and by a TN3270E REJECT
\* subnegotiation (sub-command byte 0x06 directly after the option byte);
\* no other inbound Telnet command, subnegotiation or data record changes
\* it.
C12_ModeChanges ==
   conn.connected =>
      \A i \in 1..Len(conn.framed) :
         C12_ModeAfter(conn, i) = C12_Mode(conn.framed[i])

\* In TN3270E mode a REJECT subnegotiation was framed and dropped the mode.
C12_Witness ==
   /\ conn.connected
   /\ Len(conn.framed) = 1
   /\ conn.framed[1].tn3270e_mode
   /\ conn.framed[1].data = <<255, 250, 40, 6, 0, 255, 240>>
   /\ ~conn.tn3270e_mode

\* C13: after any terminal transition (a transport error during send or
\* receive, the peer closing the connection, or an explicit disconnect())
\* the connection is in the Disconnected state and stays there until the
\* next connect(): connected is false, tn3270e_mode is false,
\* negotiation_complete is false, the negotiated functions are empty, the
\* sequence number is 0 and the receive buffer is empty, also when the
\* transition happens while the receive task is handling a Telnet command
\* or a buffer.
C13_DisconnectedState ==
   ~conn.connected =>
      /\ ~conn.tn3270e_mode
      /\ ~conn.negotiation_complete
      /\ conn.negotiated_functions = <<>>
      /\ conn.sequence_number = 0
      /\ conn.buffer = <<>>

\* The state of the connection, without the record of what the handler
\* wrote and called back.
C14_State(c) ==
   <<c.socket, c.connected, c.running, c.tn3270e_mode, c.negotiation_complete,
     c.negotiated_functions, c.sequence_number, c.buffer>>

\* C14: disconnect() is idempotent: a call on a connection that is already
\* disconnected has no observable effect: it changes no connection state
\* and does not invoke on_disconnect again.
C14_DisconnectIdempotent ==
   [][(last_op'.op = "close_event" /\ ~conn.connected)
         => (C14_State(conn') = C14_State(conn) /\ conn'.cb = <<>>)]_vars

\* The calls of on_error and on_disconnect among the handler's callbacks.
C15_Reports(c) ==
   SelectSeq(c.cb, LAMBDA e : e[1] \in {"on_error", "on_disconnect"})

\* The handler met a transport-fatal failure: the connect failed, a send
\* failed, process_data raised in the receive task, or the peer closed.
C15_Fatal ==
   \/ last_op.op \in {"connect_failed", "close"}
   \/ last_op.op = "receive"
         /\ (last_op.arg = "raise" \/ \E k \in 1..Len(conn.out) : ~conn.out[k].ok)

\* C15: every transport-fatal failure (connect timeout, transport error on
\* send or receive, peer close) is reported by exactly one on_error call
\* and is then followed by a disconnect that invokes on_disconnect; an
\* explicit disconnect() produces no on_error call.
C15_FailureReporting ==
   /\ C15_Fatal =>
         /\ Len(C15_Reports(conn)) = 2
         /\ C15_Reports(conn)[1][1] = "on_error"
         /\ C15_Reports(conn)[2][1] = "on_disconnect"
   /\ last_op.op \in {"disconnect", "close_event"} =>
         \A k \in 1..Len(conn.cb) : conn.cb[k][1] # "on_error"

\* The records of the byte stream data from index i on, the current unit
\* having begun at start: a record is the bytes from the end of the
\* previous unit through the next byte pair IAC EOR; between records,
\* IAC DO/DONT/WILL/WONT opt and IAC SB ... IAC SE are units of their
\* own.  An unfinished unit at the end is no record yet.
RECURSIVE C16_WireRecords(_, _, _, _)
C16_WireRecords(data, i, start, acc) ==
   IF i >= Len(data) THEN acc
   ELSE IF data[i] # 255 THEN C16_WireRecords(data, i + 1, start, acc)
   ELSE IF data[i + 1] = 239
   THEN C16_WireRecords(data, i + 2, i + 2,
                        IF start = i THEN acc
                        ELSE Append(acc, SubSeq(data, start, i + 1)))
   ELSE IF start # i THEN C16_WireRecords(data, i + 1, start, acc)
   ELSE IF data[i + 1] \in {251, 252, 253, 254}
   THEN IF i + 2 <= Len(data) THEN C16_WireRecords(data, i + 3, i + 3, acc) ELSE acc
   ELSE IF data[i + 1] = 250
   THEN LET ends == { j \in (i + 2)..(Len(data) - 1) :
                         data[j] = 255 /\ data[j + 1] = 240 }
        IN  IF ends = {} THEN acc
            ELSE LET j == CHOOSE j \in ends : \A k \in ends : j <= k
                 IN  C16_WireRecords(data, j + 2, j + 2, acc)
   ELSE IF data[i + 1] = 255 THEN C16_WireRecords(data, i + 1, i + 1, acc)
   ELSE C16_WireRecords(data, i + 1, start, acc)

\* The records passed to on_data by the handler, in order.
C16_Delivered(c) ==
   LET calls == SelectSeq(c.cb, LAMBDA e : e[1] = "on_data")
   IN  [k \in 1..Len(calls) |-> calls[k][2]]

C17_FieldStartIffField ==
   /\ \A pos \in 0..(SIZE - 1) :
         screen.cells[pos].is_field_start
            <=> \E i \in 1..Len(screen.fields) : screen.fields[i].start_pos = pos
   /\ \A i \in 1..Len(screen.fields) : screen.fields[i].start_pos \in 0..(SIZE - 1)

\* A Write added a field to a screen that had one: two cells are field
\* starts and the field list has their two entries.
C17_Witness ==
   /\ n_records = 2
   /\ Len(screen.fields) = 2
   /\ screen.fields[1].start_pos # screen.fields[2].start_pos
   /\ Cardinality({ pos \in 0..(SIZE - 1) : screen.cells[pos].is_field_start }) = 2

\* The entry installed last at the field-start cell start_pos.
C18_LastInstalled(s, start_pos) ==
   LET at == { i \in 1..Len(s.fields) : s.fields[i].start_pos = start_pos }
   IN  s.fields[CHOOSE i \in at : \A j \in at : i >= j]

\* The four flags of a cell or of a field.
C18_Flags(x) == <<x.is_protected, x.is_numeric, x.is_hidden, x.is_intensified>>

\* C18: in every reachable state of the screen, each non-field-start cell's
\* is_protected, is_numeric, is_hidden and is_intensified flags equal those
\* of the field most recently installed at the nearest preceding
\* field-start cell in circular order, and all four are false when the
\* screen has no field.
C18_CellsInheritFlags ==
   \A pos \in 0..(SIZE - 1) :
      ~screen.cells[pos].is_field_start =>
         IF Len(screen.fields) = 0
         THEN C18_Flags(screen.cells[pos]) = <<FALSE, FALSE, FALSE, FALSE>>
         ELSE C18_Flags(screen.cells[pos])
                 = C18_Flags(C18_LastInstalled(screen, C6_OwnerStart(screen, pos)))

\* Two fields of different protection, installed against screen order:
\* a cell of each kind follows them.
C18_Witness ==
   /\ Len(screen.fields) = 2
   /\ screen.fields[1].start_pos > screen.fields[2].start_pos
   /\ screen.fields[1].is_protected # screen.fields[2].is_protected
   /\ \E p, q \in 0..(SIZE - 1) :
         /\ ~screen.cells[p].is_field_start /\ screen.cells[p].is_protected
         /\ ~screen.cells[q].is_field_start /\ ~screen.cells[q].is_protected

\* The start positions of the fields of s that begin at or before pos.
C19_StartsUpTo(s, pos) ==
   { s.fields[i].start_pos : i \in 1..Len(s.fields) } \cap (0..pos)

\* The start position the field containing pos has: the greatest start
\* position at or before pos, and the greatest of all when pos precedes
\* every field start.
C19_OwnerStart(s, pos) ==
   LET all == { s.fields[i].start_pos : i \in 1..Len(s.fields) }
       upto == C19_StartsUpTo(s, pos)
       from == IF upto = {} THEN all ELSE upto
   IN  CHOOSE a \in from : \A b \in from : b <= a

\* C19: on a screen with at least one field, get_field_at(pos) returns for
\* every position of the screen, whatever the order in which the host
\* installed the fields, the field with the greatest start_pos <= pos, and
\* the field with the greatest start_pos of all when pos precedes every
\* field start.
C19_GetFieldAtGreatestStart ==
   Len(screen.fields) > 0 =>
      \A pos \in 0..(SIZE - 1) :
         screen.fields[get_field_at(screen.fields, pos)].start_pos
            = C19_OwnerStart(screen, pos)

\* The start positions of the fields of s whose own attribute byte is
\* unprotected (the attribute of the field most recently installed there).
C20_UnprotectedStarts(s) ==
   { p \in 0..(SIZE - 1) :
        /\ \E i \in 1..Len(s.fields) : s.fields[i].start_pos = p
        /\ ~C18_LastInstalled(s, p).is_protected }

\* start_pos + 1 (mod SIZE) of the field of starts nearest to pos in the
\* direction dir (1 forward, -1 backward), scanning circularly from pos.
C20_Nearest(starts, pos, dir) ==
   LET at(d) == (pos + dir * d + SIZE) % SIZE
       d == CHOOSE k \in 1..(SIZE - 1) :
               /\ at(k) \in starts
               /\ \A j \in 1..(k - 1) : at(j) \notin starts
   IN  (at(d) + 1) % SIZE

\* C20: get_next_input_field(pos) and get_prev_input_field(pos), and so the
\* PT order, return start_pos + 1 (mod SIZE) of the nearest field, scanning
\* circularly forward or backward from pos, whose own attribute byte is
\* unprotected; when no field of the screen is unprotected they return pos
\* unchanged.
C20_InputFieldScan ==
   LET starts == C20_UnprotectedStarts(screen)
   IN  \A pos \in 0..(SIZE - 1) :
          /\ starts = {} =>
                /\ get_next_input_field(screen.cells, pos) = pos
                /\ get_prev_input_field(screen.cells, pos) = pos
          /\ starts \ {pos} # {} =>
                /\ get_next_input_field(screen.cells, pos)
                      = C20_Nearest(starts, pos, 1)
                /\ get_prev_input_field(screen.cells, pos)
                      = C20_Nearest(starts, pos, -1)

(***************************************************************************)
(* Claims about process_data, under SpecParse.  After OnData the record    *)
(* the on_data observer received is the first callback of the handler.     *)
(***************************************************************************)
\* The record of the step that led to this state (last_op.op = "data").
DeliveredRecord == conn.cb[1][2]

\* What a screen shows: cells, field list and cursor.
Shown(s) == <<s.cells, s.fields, s.cursor_pos>>

\* C21: after a record starting with Erase/Write or Erase/Write Alternate is
\* processed, the screen reflects only that record, whatever the earlier
\* screen and whatever the bytes after the WCC: cells, field list and
\* cursor are those the orders after the WCC produce on a blank screen with
\* no fields and the cursor at 0.
C21_EraseWriteReflectsRecord ==
   (last_op.op = "data" /\ DeliveredRecord[1] \in ERASE_COMMANDS) =>
      Shown(screen)
         = Shown(process_orders(ScreenBuffer, RecordBody(DeliveredRecord), 2, 0).s)

\* Whether position p of s lies in a field whose attribute is protected.
C22_InProtectedField(s, p) ==
   Len(s.fields) > 0 /\ C18_LastInstalled(s, C19_OwnerStart(s, p)).is_protected

\* The field list without the MDT of its fields.
C22_FieldsNoMDT(s) ==
   [i \in 1..Len(s.fields) |-> [s.fields[i] EXCEPT !.is_modified = FALSE]]

\* The cells of a screen after Erase All Unprotected, as the claim has them.
C22_CellsErased ==
   \A p \in 0..(SIZE - 1) :
      /\ (~screen.cells[p].is_field_start /\ Len(screen.fields) > 0
             /\ ~C22_InProtectedField(screen, p))
            => screen'.cells[p].char = 32
      /\ (screen.cells[p].is_field_start \/ C22_InProtectedField(screen, p))
            => screen'.cells[p] = screen.cells[p]

\* C22: after an Erase All Unprotected command (0x6F or 0x0F) is processed,
\* every non-field-start cell of an unprotected field is a space, every
\* protected cell, every field-start cell and the field list are unchanged,
\* and the MDT of every unprotected field is false.
C22_EraseAllUnprotected ==
   [][ (n_records' = n_records + 1
          /\ conn'.cb[1][2][1] \in {ERASE_ALL_UNPROTECTED, CCW_ERASE_ALL_UNPROTECTED})
       => /\ C22_CellsErased
          /\ C22_FieldsNoMDT(screen') = C22_FieldsNoMDT(screen)
          /\ \A i \in 1..Len(screen'.fields) :
                ~screen'.fields[i].is_protected => ~screen'.fields[i].is_modified
     ]_vars

\* C23: when process_data is called with TN3270E mode asserted (_on_data
\* passes connection.tn3270e_mode) and byte 0 of the record, the DATA-TYPE,
\* is not 0x00, the record is dropped: cells, field list and cursor_pos are
\* unchanged.
C23_NonDataRecordDropped ==
   [][ (n_records' = n_records + 1 /\ conn.tn3270e_mode
          /\ conn'.cb[1][2][1] # 0)
       => Shown(screen') = Shown(screen) ]_vars

\* The write command at offset of data executed on s: the erase commands
\* clear the screen and interpret the orders after the WCC, Erase All
\* Unprotected erases, Write Structured Field is skipped, Write interprets
\* the orders after the WCC.
C24_ExecuteAt(s, data, offset) ==
   LET cmd == At(data, offset)
       orders == IF offset + 1 < Len(data) THEN offset + 2 ELSE offset + 1
   IN  IF cmd \in ERASE_COMMANDS THEN process_orders(clear(s), data, orders, 0).s
       ELSE IF cmd \in {ERASE_ALL_UNPROTECTED, CCW_ERASE_ALL_UNPROTECTED}
       THEN erase_unprotected(s)
       ELSE IF cmd = WRITE_STRUCTURED_FIELD THEN s
       ELSE process_orders(s, data, orders, 0).s

\* Whether bytes 0-4 of data are a TN3270E header: byte 0 is 0x00 and byte
\* 5 is a write command.
C24_HasHeader(data) ==
   Len(data) > 5 /\ At(data, 0) = 0 /\ At(data, 5) \in ALL_WRITE_COMMANDS

\* C24: process_data (which never reads the mode its caller passes) treats
\* bytes 0-4 as a TN3270E header only if byte 0 is 0x00 and byte 5 is a
\* write command, and then executes the command at offset 5; a header-less
\* record whose first byte is a write command is executed from that command
\* whatever value its byte 5 has.
C24_HeaderAutoDetect ==
   [][ n_records' = n_records + 1 =>
          LET data == RecordBody(conn'.cb[1][2])
          IN  /\ C24_HasHeader(data)
                    => Shown(screen') = Shown(C24_ExecuteAt(screen, data, 5))
              /\ At(data, 0) \in ALL_WRITE_COMMANDS
                    => Shown(screen') = Shown(C24_ExecuteAt(screen, data, 0))
     ]_vars

\* The number of operand bytes of the order at offset of data.
C25_Operands(data, offset) ==
   LET byte == At(data, offset)
       pairs == IF offset + 1 < Len(data) THEN 1 + 2 * At(data, offset + 1) ELSE 1
   IN  CASE byte \in {SBA, SA, EUA} -> 2
         [] byte \in {SF, GE} -> 1
         [] byte \in {SFE, MF} -> pairs
         [] byte = RA -> 3
         [] OTHER -> 0

\* The offset of the first order of data, from offset on, whose operand is
\* cut short by the end of the record; -1 when every order is complete.
RECURSIVE C25_Truncation(_, _)
C25_Truncation(data, offset) ==
   IF offset >= Len(data) THEN -1
   ELSE IF offset + C25_Operands(data, offset) >= Len(data) THEN offset
   ELSE C25_Truncation(data, offset + C25_Operands(data, offset) + 1)

\* C25: for every order that takes operands (SBA, SF, SFE, SA, RA, EUA, MF,
\* GE), if a Write or Erase/Write record ends before the operand is
\* complete, parsing stops there and the truncated order changes nothing:
\* the screen is the one the record cut before that order produces.
C25_TruncatedOrderIgnored ==
   [][ n_records' = n_records + 1 =>
          LET data == RecordBody(conn'.cb[1][2])
              cut == C25_Truncation(data, 2)
          IN  (/\ At(data, 0) \in {WRITE, ERASE_WRITE}
               /\ ~(Len(data) > 5 /\ At(data, 5) \in ALL_WRITE_COMMANDS)
               /\ cut # -1)
              => Shown(screen')
                    = Shown(process_data(screen,
                               SubSeq(data, 1, cut) \o <<IAC, EOR>>).s)
     ]_vars

(***************************************************************************)
(* Claims about the codecs, under SpecCodec.                               *)
(***************************************************************************)
\* C26: for every p in [0, 4096), decode_buffer_address of the pair
\* encode_buffer_address(p) is p, and encoding the decoded value again gives
\* back the same two bytes.
C26_AddressRoundTrip ==
   /\ last_op.op \in {"decoded_address", "reencoded_address"}
         => last_op.back = last_op.arg
   /\ last_op.op = "reencoded_address" => last_op.again = last_op.code

\* The greatest address with bit 6 of its first byte clear in the table
\* (ADDR_TABLE[63] = 0x7F) has made the round trip.
C26_Witness ==
   /\ last_op.op = "reencoded_address"
   /\ last_op.arg = AddressSpace - 1
   /\ last_op.code = <<127, 127>>

\* C27: for every printable ASCII character c in 0x20..0x7E that is a key of
\* the ASCII-to-EBCDIC map (so not encoded to 0x40 by the default rule),
\* ebcdic_to_ascii(ascii_to_ebcdic(c)) = c.
C27_CharRoundTrip ==
   (last_op.op = "decoded_char" /\ last_op.arg \in A2E_KEYS)
      => last_op.back = last_op.arg

\* The last printable character, the tilde, has made the round trip
\* through its EBCDIC code 0xA1.
C27_Witness ==
   /\ last_op.op = "decoded_char"
   /\ last_op.arg = 126
   /\ last_op.code = <<161>>

(***************************************************************************)
(* Claims about the two threads, under SpecThreads.                        *)
(***************************************************************************)
\* C28: the screen mutations of one inbound record never interleave with the
\* AID builder's reading of the screen: is_unformatted, get_modified_fields
\* and clear_modified_flags of one AID all see the screen between two whole
\* inbound records, and the same screen.
C28_AidReadsWholeRecordState ==
   \A i \in 1..Len(mt.reads) :
      /\ mt.reads[i].whole
      /\ mt.reads[i].ver = mt.reads[1].ver

\* C29: every observer callback (on_data, on_connect, on_disconnect,
\* on_error) is invoked from the receive task and from no other thread,
\* including those caused by connect(), by an explicit disconnect() and by
\* a failing send() of the application thread.
C29_CallbacksOnReceiveThread ==
   \A call \in mt.calls : call[2] = "rcv"

(***************************************************************************)
(* The framer and Telnet commands inside records, under SpecConn.          *)
(***************************************************************************)
\* Whether data, read from index i on, holds a Telnet negotiation command
\* or the start of a subnegotiation; IAC IAC is a data byte 0xFF.
RECURSIVE C30_HoldsCommand(_, _)
C30_HoldsCommand(data, i) ==
   IF i >= Len(data) THEN FALSE
   ELSE IF data[i] # IAC THEN C30_HoldsCommand(data, i + 1)
   ELSE IF data[i + 1] \in {DO, DONT, WILL, WONT, SB} THEN TRUE
   ELSE C30_HoldsCommand(data, i + 2)

\* C30: every record passed to on_data is one 3270 record up to and
\* including its closing IAC EOR, and contains no Telnet negotiation command
\* (IAC DO/DONT/WILL/WONT opt) and no subnegotiation (IAC SB ... IAC SE) the
\* peer sent, wherever in the byte stream the peer placed them.
C30_RecordsHoldNoCommand ==
   \A i \in 1..Len(conn.cb) :
      conn.cb[i][1] = "on_data" =>
         LET record == conn.cb[i][2]
         IN  /\ Len(record) >= 2
             /\ record[Len(record) - 1] = IAC /\ record[Len(record)] = EOR
             /\ ~C30_HoldsCommand(record, 1)

\* Whether the IAC at index i of data is the second of an escaped pair,
\* reading the pairs from index k on.
RECURSIVE C31_Escaped(_, _, _)
C31_Escaped(data, i, k) ==
   IF k >= i THEN FALSE
   ELSE IF data[k] = IAC /\ data[k + 1] = IAC
        THEN k + 1 = i \/ C31_Escaped(data, i, k + 2)
        ELSE C31_Escaped(data, i, IF data[k] = IAC THEN k + 2 ELSE k + 1)

\* C31: an escaped IAC (the pair IAC IAC) of the inbound stream is one data
\* byte 0xFF.  When the bytes a turn of the receive loop works on begin with
\* IAC IAC, the first unit the framer cuts is a record that begins with that
\* byte, and the IAC that closes a record the framer cuts is never the
\* second IAC of an escaped pair.
C31_EscapedIacIsData ==
   last_op.op = "receive" =>
      /\ (Len(conn.rx) >= 2 /\ conn.rx[1] = IAC /\ conn.rx[2] = IAC
             /\ Len(conn.framed) > 0)
            => /\ conn.framed[1].kind = "record"
               /\ conn.framed[1].data[1] = IAC
      /\ \A i \in 1..Len(conn.framed) :
            conn.framed[i].kind = "record" =>
               ~C31_Escaped(conn.framed[i].data, Len(conn.framed[i].data) - 1, 1)

(***************************************************************************)
(* Claims about the negotiation, under SpecNegotiate and SpecConn.         *)
(***************************************************************************)
\* Whether data begins with prefix.
C32_Begins(data, prefix) ==
   Len(data) >= Len(prefix) /\ SubSeq(data, 1, Len(prefix)) = prefix

\* What the client has sent is a beginning of WILL TN3270E, DEVICE-TYPE
\* REQUEST, FUNCTIONS REQUEST, the k-th sent only once the k-th peer message
\* had been delivered whole.
C32_RepliesInOrder ==
   /\ Len(mt.sent) <= 3
   /\ \A k \in 1..Len(mt.sent) :
         /\ mt.sent[k].at >= mt.ends[k]
         /\ C32_Begins(mt.sent[k].data,
               << <<IAC, WILL, 40>>, <<IAC, SB, 40, 2, 7>>, <<IAC, SB, 40, 3, 7>> >>[k])

\* TN3270EActive, the three replies sent.
C32_Active ==
   conn.tn3270e_mode /\ conn.negotiation_complete /\ Len(mt.sent) = 3

\* C32: if after connect the peer sends IAC DO TN3270E and then the
\* subnegotiations SEND DEVICE-TYPE, DEVICE-TYPE IS and FUNCTIONS IS, and
\* the transport does not fail, the connection eventually reaches
\* TN3270EActive (tn3270e_mode and negotiation_complete both true), having
\* sent WILL TN3270E, DEVICE-TYPE REQUEST and FUNCTIONS REQUEST in that
\* order, each after the peer message it answers.
C32_NegotiationCompletes ==
   [] C32_RepliesInOrder /\ <>[] C32_Active

\* The negotiation has ended in TN3270EActive
\* with the functions 0 and 4 agreed, the FUNCTIONS REQUEST sent in the turn
\* that delivered the last byte of DEVICE-TYPE IS.
C32_Witness ==
   /\ C32_Active
   /\ mt.stream = <<>>
   /\ conn.negotiated_functions = <<0, 4>>
   /\ mt.sent[3].at = mt.ends[4] - 9

\* C33: in every reachable connection state negotiation_complete implies
\* tn3270e_mode; a downgrade by DONT TN3270E or TN3270E REJECT leaves no
\* state where negotiation is marked complete while the mode is base TN3270.
C33_CompleteImpliesMode ==
   conn.negotiation_complete => conn.tn3270e_mode

\* C34: in every reachable state of the screen the field list is in screen
\* order, its entries sorted by strictly increasing start_pos, whatever the
\* order of the addresses at which the host's SF and SFE orders arrive.
C34_FieldsInScreenOrder ==
   \A i \in 1..(Len(screen.fields) - 1) :
      screen.fields[i].start_pos < screen.fields[i + 1].start_pos

\* C40: in every reachable state of the screen no two entries of the field
\* list have the same start_pos, also when a Write command without erase
\* sends SF or SFE at a position that already is a field-start.
C40_FieldStartsDistinct ==
   \A i, j \in 1..Len(screen.fields) :
      i # j => screen.fields[i].start_pos # screen.fields[j].start_pos

\* C35: process_data terminates on every record; the fill loops of Repeat
\* to Address and Erase Unprotected to Address stop after at most SIZE cells
\* for every decoded end address, including end addresses of SIZE or more
\* that the wrapping write position can never equal.
C35_FillLoopsTerminate ==
   rx_status # "hung"

\* Whether the bytes consumed from data, from index i (0-based) up to but
\* not including index stop, are exactly the units framed, in order, with
\* only standalone IAC EOR pairs and the escapes of IAC IAC between them.
RECURSIVE C36_Accounts(_, _, _, _)
C36_Accounts(data, i, stop, units) ==
   IF i >= stop THEN i = stop /\ units = <<>>
   ELSE \/ /\ units # <<>>
           /\ i + Len(units[1].data) <= stop
           /\ SubSeq(data, i + 1, i + Len(units[1].data)) = units[1].data
           /\ C36_Accounts(data, i + Len(units[1].data), stop, Tail(units))
        \/ /\ i + 2 <= stop
           /\ At(data, i) = IAC /\ At(data, i + 1) = EOR
           /\ C36_Accounts(data, i + 2, stop, units)
        \/ /\ i + 1 < Len(data)
           /\ At(data, i) = IAC /\ At(data, i + 1) = IAC
           /\ C36_Accounts(data, i + 1, stop, units)

\* Whether a framed unit is whole: a three-byte command, a subnegotiation
\* through IAC SE, a record through IAC EOR.
C36_Whole(unit) ==
   LET n == Len(unit.data)
   IN  CASE unit.kind = "telnet" -> n = 3
         [] unit.kind = "subneg" -> n >= 4 /\ SubSeq(unit.data, n - 1, n) = <<IAC, SE>>
         [] OTHER -> n >= 2 /\ SubSeq(unit.data, n - 1, n) = <<IAC, EOR>>

\* C36: _process_buffer terminates for every buffer content, each iteration
\* either stopping to await more bytes or strictly shortening the buffer,
\* and it never drops a byte of an incomplete command, subnegotiation or
\* record: while the connection is up, what is left in the buffer is the end
\* of what the loop started from, and every byte before it belongs to a
\* whole unit that was framed, to a standalone IAC EOR or to an escape.
C36_FramerTerminates ==
   last_op.op = "receive" =>
      /\ rx_status # "hung"
      /\ conn.running =>
            /\ Len(conn.buffer) <= Len(conn.rx)
            /\ Drop(conn.rx, Len(conn.rx) - Len(conn.buffer)) = conn.buffer
            /\ \A k \in 1..Len(conn.framed) : C36_Whole(conn.framed[k])
            /\ C36_Accounts(conn.rx, 0, Len(conn.rx) - Len(conn.buffer), conn.framed)

\* The part of C36 about the bytes, without the part about termination.
C36_NoByteDropped ==
   (last_op.op = "receive" /\ conn.running /\ rx_status # "hung") =>
      /\ Drop(conn.rx, Len(conn.rx) - Len(conn.buffer)) = conn.buffer
      /\ \A k \in 1..Len(conn.framed) : C36_Whole(conn.framed[k])
      /\ C36_Accounts(conn.rx, 0, Len(conn.rx) - Len(conn.buffer), conn.framed)

\* Whether a is a beginning of b.
C37_Prefix(a, b) ==
   Len(a) <= Len(b) /\ SubSeq(b, 1, Len(a)) = a

\* No further turn of the receive loop will run on the stream.
C37_Ended ==
   mt.stream = <<>> \/ ~conn.running \/ rx_status = "hung"

\* C37: the framer's output is independent of how the inbound byte stream
\* is split into received segments: the Telnet replies and Query Replies
\* sent, the commands and subnegotiations handled and the records passed to
\* on_data are, at every moment, a beginning of those of the stream received
\* as one segment, and the same once the stream has been received.
C37_ChunkingIndependent ==
   /\ C37_Prefix(mt.done.sent, mt.whole.sent)
   /\ C37_Prefix(mt.done.handled, mt.whole.handled)
   /\ C37_Prefix(mt.done.calls, mt.whole.calls)
   /\ C37_Ended => (mt.done = mt.whole /\ screen.cells = mt.whole_screen)

\* A segment has ended inside a record, after a command was answered and a
\* Query Reply sent: the beginning of the record waits in the buffer for the
\* IAC EOR that recv has yet to return.
C37_Witness ==
   /\ conn.buffer = <<ERASE_WRITE, 195, 193>>
   /\ mt.stream = <<IAC, EOR>>
   /\ Len(mt.done.sent) = 2
   /\ mt.done.calls = <<>>
   /\ conn.tn3270e_mode

\* The tasks that are in recv on the socket of the present connection.
C38_Readers ==
   { t \in 1..MaxConnects :
        mt.tasks[t].pc = "recv" /\ mt.tasks[t].sock = mt.gen /\ conn.socket }

\* C38: a receive task started for one connection never affects a later
\* connection: after disconnect() followed by connect() the old task appends
\* nothing to the receive buffer, reports no error and does not disconnect
\* the new connection, and at most one receive task reads the socket at any
\* time.
C38_OldTaskHarmless ==
   /\ mt.late = {}
   /\ Cardinality(C38_Readers) <= 1

\* data with each 0xFF doubled.
RECURSIVE C39_Escape(_)
C39_Escape(data) ==
   IF data = <<>> THEN <<>>
   ELSE (IF Head(data) = IAC THEN <<IAC, IAC>> ELSE <<Head(data)>>)
           \o C39_Escape(Tail(data))

\* Whether every IAC of data from index i (0-based) up to stop is one of a
\* pair IAC IAC: every run of IACs there has an even length.
C39_Paired(data, i, stop) ==
   \A e \in i..(stop - 1) :
      (At(data, e) = IAC /\ (e = stop - 1 \/ At(data, e + 1) # IAC)) =>
         LET first == CHOOSE b \in i..e :
                         /\ \A k \in b..e : At(data, k) = IAC
                         /\ (b = i \/ At(data, b - 1) # IAC)
         IN  (e - first + 1) % 2 = 0

\* C39: every outbound AID record and Query Reply is Telnet-safe: each 0xFF
\* before the terminating IAC EOR, in the sequence-number bytes of the
\* TN3270E header for every sequence value and in the data after it, is
\* transmitted doubled as IAC IAC, so that the only IAC EOR of the record is
\* its terminator.
C39_RecordsTelnetSafe ==
   \A t \in Threads :
      mt.pc[t] \in {"acquire", "sendall"} =>
         LET data == mt.data[t]
             n == Len(data)
             header == C39_Escape(<<0, 0, 0, mt.seq[t] \div 256, mt.seq[t] % 256>>)
         IN  /\ n >= Len(header) + 2
             /\ SubSeq(data, 1, Len(header)) = header
             /\ SubSeq(data, n - 1, n) = <<IAC, EOR>>
             /\ C39_Paired(data, Len(header), n - 2)

=============================================================================
